---- MODULE Spec2Model ----
(***************************************************************************)
(* dh-make-golang: the upstream version resolver (version.go,              *)
(* pkgVersionFromGit), the dependency walker of "estimate" (estimate.go,   *)
(* estimate/visit), execMake's errgroup (make.go), check-depends           *)
(* (check_depends.go), the Debian names (make.go), reformatForControl      *)
(* (description.go), updateFlagNames (main.go) and get with its progress   *)
(* goroutine (estimate.go, progress.go).                                   *)
(*                                                                         *)
(* Strings are sequences of one-character strings, so that trimming,       *)
(* prefix tests, regular-expression matches and number formatting are      *)
(* computed character by character as the Go code computes them.           *)
(***************************************************************************)
EXTENDS Integers, Sequences, FiniteSets, TLC

(***************************************************************************)
(* Bounds of the model.                                                    *)
(***************************************************************************)
MaxCommits == 2
MaxTags == 2
MaxCalls == 3
MaxEdges == 4
MaxStack == 7
MaxDeps == 2

\* requirements in go.mod
MaxReqs == 2

\* build dependencies in debian/control
MaxBuildDeps == 2

\* characters of a program name
MaxName == 3

\* path components after the host of an import path
MaxParts == 2

\* lines of a description
MaxLines == 3

\* command-line arguments
MaxArgs == 2

\* rounds of the progress loop while go get runs
MaxRounds == 2

(***************************************************************************)
(* Character classes and string helpers (Go: unicode, strings, strconv).   *)
(***************************************************************************)
Digits == {"0", "1", "2", "3", "4", "5", "6", "7", "8", "9"}

HexDigits == Digits \cup {"a", "b", "c", "d", "e", "f"}

WhiteSpace == {" ", "\n", "\t"}

\* unicode.IsNumber on the alphabet the model uses (ASCII).
IsNumber(c) == c \in Digits

\* (variant: strings.TrimPrefix(s, "v"))
TrimPrefixV(s) == IF s # <<>> /\ Head(s) = "v" THEN Tail(s) ELSE s

\* strings.TrimLeftFunc(s, func(r) bool { return !unicode.IsNumber(r) })
RECURSIVE TrimLeftNonNumber(_)
TrimLeftNonNumber(s) ==
    IF s = <<>> THEN <<>>
    ELSE IF ~IsNumber(Head(s)) THEN TrimLeftNonNumber(Tail(s))
    ELSE s

RECURSIVE TrimLeftSpace(_)
TrimLeftSpace(s) ==
    IF s = <<>> THEN <<>>
    ELSE IF Head(s) \in WhiteSpace THEN TrimLeftSpace(Tail(s))
    ELSE s

RECURSIVE TrimRightSpace(_)
TrimRightSpace(s) ==
    IF s = <<>> THEN <<>>
    ELSE IF s[Len(s)] \in WhiteSpace THEN TrimRightSpace(SubSeq(s, 1, Len(s) - 1))
    ELSE s

\* strings.TrimSpace
TrimSpace(s) == TrimRightSpace(TrimLeftSpace(s))

\* strings.HasPrefix
HasPrefix(s, p) == Len(p) <= Len(s) /\ SubSeq(s, 1, Len(p)) = p

\* strings.Contains
Contains(s, sub) ==
    \E i \in 1..(Len(s) - Len(sub) + 1) : SubSeq(s, i, i + Len(sub) - 1) = sub

DigitChar(d) ==
    CASE d = 0 -> "0" [] d = 1 -> "1" [] d = 2 -> "2" [] d = 3 -> "3"
      [] d = 4 -> "4" [] d = 5 -> "5" [] d = 6 -> "6" [] d = 7 -> "7"
      [] d = 8 -> "8" [] d = 9 -> "9"

DigitValue(c) ==
    CASE c = "0" -> 0 [] c = "1" -> 1 [] c = "2" -> 2 [] c = "3" -> 3
      [] c = "4" -> 4 [] c = "5" -> 5 [] c = "6" -> 6 [] c = "7" -> 7
      [] c = "8" -> 8 [] c = "9" -> 9

\* strconv.Itoa for n >= 0
RECURSIVE Itoa(_)
Itoa(n) ==
    IF n < 10 THEN <<DigitChar(n)>>
    ELSE Itoa(n \div 10) \o <<DigitChar(n % 10)>>

\* strconv.Atoi on a non-empty run of digits
RECURSIVE Atoi(_)
Atoi(s) ==
    IF s = <<>> THEN 0
    ELSE 10 * Atoi(SubSeq(s, 1, Len(s) - 1)) + DigitValue(s[Len(s)])

\* n printed in decimal, left-padded with zeros to width w
RECURSIVE ZeroPad(_, _)
ZeroPad(n, w) ==
    IF w = 0 THEN <<>>
    ELSE ZeroPad(n \div 10, w - 1) \o <<DigitChar(n % 10)>>

(***************************************************************************)
(* time.Unix(sec, 0).UTC().Format("20060102"): the civil date of a UNIX    *)
(* timestamp in UTC, as YYYYMMDD.                                          *)
(***************************************************************************)
SecondsPerDay == 86400

\* Offset of the zone the date is rendered in; .UTC() makes it 0.
UTCOffset == 0

CivilFromDays(days) ==
    LET z == days + 719468
        era == z \div 146097
        doe == z - era * 146097
        yoe == (doe - doe \div 1460 + doe \div 36524 - doe \div 146096) \div 365
        doy == doe - (365 * yoe + yoe \div 4 - yoe \div 100)
        mp == (5 * doy + 2) \div 153
        d == doy - (153 * mp + 2) \div 5 + 1
        m == IF mp < 10 THEN mp + 3 ELSE mp - 9
        y == yoe + era * 400 + (IF m <= 2 THEN 1 ELSE 0)
    IN  [year |-> y, month |-> m, day |-> d]

FormatDate(sec) ==
    LET c == CivilFromDays((sec + UTCOffset) \div SecondsPerDay)
    IN  ZeroPad(c.year, 4) \o ZeroPad(c.month, 2) \o ZeroPad(c.day, 2)

(***************************************************************************)
(* Inputs of the version resolver: tag names, committer timestamps and     *)
(* abbreviated commit ids that the modelled repositories carry.            *)
(***************************************************************************)
TagV78 == <<"v", "7", ".", "8">>

TagRc == <<"v", "1", ".", "0", "-", "r", "c", "1">>

TagFoo == <<"f", "o", "o">>

TagSub == <<"s", "/", "v", "2">>

TagV10 == <<"v", "1", ".", "0">>

TagNames == {TagV78, TagRc, TagFoo, TagSub}

\* successive releases of one upstream: 1.0-rc1, then 1.0, then 7.8
ReleaseTags == {TagRc, TagV10, TagV78}

\* a release tag and a tag the describe pattern "*/v*" excludes
FaultTags == {TagV78, TagSub}

\* 2015-04-20T11:22:33Z and 2015-05-06T23:59:59Z
CommitTimes == {1429528953, 1430956799}

\* git's abbreviated object name of the i-th commit of the history
HashOf(i) ==
    CASE i = 1 -> <<"9", "f", "1", "0">>
      [] i = 2 -> <<"1", "d", "2", "4">>
      [] i = 3 -> <<"c", "0", "e", "7">>
      [] OTHER -> <<"4", "b">> \o Itoa(i)

\* The git invocation the environment makes fail (exit status non-zero),
\* besides the failures that follow from the repository state.
Faults == {"none", "describe", "revlist", "log", "describelong", "revparse"}

(***************************************************************************)
(* State.                                                                  *)
(*   ncommits        the git repository in gitdir: the number of commits   *)
(*   headTime        of its linear history, the committer time of HEAD,    *)
(*   tags            and its tags in creation order, each on the commit    *)
(*                   it was made at (the git commands below read nothing   *)
(*                   else of the history)                                  *)
(*   u               the upstream struct the caller passes                 *)
(*   ret             what the last pkgVersionFromGit call returned, with   *)
(*                   the arguments of that call and what the repository    *)
(*                   was then: n commits, HEAD committed at ct, latest     *)
(*                   tag named tag ("" when there was none)                *)
(*   vpc             "returned" right after a call, "idle" once the        *)
(*                   repository or the struct changed again                *)
(*   calls           number of pkgVersionFromGit calls made so far         *)
(*                                                                         *)
(*   epc             where estimate is: "graph" (about to run go mod       *)
(*                   graph), "binaries", "build", "walk", "done",          *)
(*                   "graphfailed" and "binariesfailed" (returned right    *)
(*                   after the command that failed), or "overflow" (the    *)
(*                   goroutine stack is exhausted and the process dies)    *)
(*   eret            what estimate returned: "none" yet, "nil", "error"    *)
(*   golangBinaries  import paths already packaged in Debian               *)
(*   modGraph        the lines of go mod graph read so far                 *)
(*   children        nodes: node name -> names of its children, in order   *)
(*   lines, seen, rrseen, needed   the variables visit closes over         *)
(*   stack           the active calls of visit, innermost last             *)
(*   stdout          the report lines printed                              *)
(*   enumerated      (history) node name -> how many times visit has       *)
(*                   entered the loop over that node's children            *)
(*                                                                         *)
(*   mpc             where the main flow of execMake is: "start",          *)
(*                   "download", "stat", "wait", "check", "deps", "done",  *)
(*                   or "fatal" (log.Fatalf ended the process)             *)
(*   fpc             the task given to eg.Go: "none" yet, "running",       *)
(*                   "assigned" (golangBinaries written), "done"           *)
(*   makeBinaries    execMake's golangBinaries, egErr the task's error     *)
(*   repoDeps, depNext, debdependencies, warned   the dependency loop      *)
(*   writtenAt       (history) where the main flow was when the task       *)
(*                   wrote golangBinaries                                  *)
(*   overlap         (history) the main flow has read golangBinaries       *)
(*                   before the task had finished, or the task wrote it    *)
(*                   after a read                                          *)
(*                                                                         *)
(*   fn              the function that was called: "none" yet, or          *)
(*                   "parseGoModDependencies", "execCheckDepends",         *)
(*                   "normalizeDebianProgramName", ...                     *)
(*   arg, result     its arguments and what it returned or printed         *)
(*                                                                         *)
(*   gpc             where get is: "idle", "running" (go get runs),        *)
(*                   "returning" and "failing" (done is closed, get has    *)
(*                   not returned yet), "returned", "failed"               *)
(*   done            the channel: "none" yet, "open", "closed"             *)
(*   ppc             where progressSize is: "none" yet, "top", "clear",    *)
(*                   "print", "select", "returned"                         *)
(*   tty, previous, usage   the variables of progressSize                  *)
(*   term            the last write to standard output: who wrote, what,   *)
(*                   and (history) whether get had returned by then        *)
(*   rounds          the rounds of the progress loop made so far           *)
(***************************************************************************)
VARIABLES ncommits, headTime, tags, u, ret, vpc, calls,
          epc, eret, golangBinaries, modGraph, children, lines, seen, rrseen,
          needed, stack, stdout, enumerated,
          mpc, fpc, makeBinaries, egErr, repoDeps, depNext, debdependencies,
          warned, writtenAt, overlap,
          fn, arg, result,
          gpc, done, ppc, tty, previous, usage, term, rounds

\* var u upstream
ZeroUpstream ==
    [hasRelease |-> FALSE, isRelease |-> FALSE, version |-> <<>>,
     commitIsh |-> <<>>, tag |-> <<>>]

NoReturn ==
    [version |-> <<>>, err |-> FALSE, force |-> FALSE, fault |-> "none",
     fresh |-> TRUE, n |-> 0, ct |-> 0, tag |-> <<>>]

estimateVars ==
    <<epc, eret, golangBinaries, modGraph, children, lines, seen, rrseen,
      needed, stack, stdout, enumerated>>

versionVars == <<ncommits, headTime, tags, u, ret, vpc, calls>>

toolVars == <<fn, arg, result>>

getVars == <<gpc, done, ppc, tty, previous, usage, term, rounds>>

makeVars ==
    <<mpc, fpc, makeBinaries, egErr, repoDeps, depNext, debdependencies,
      warned, writtenAt, overlap>>

\* the repository as the git commands see it
Repo == [n |-> ncommits, ct |-> headTime, tags |-> tags]

(***************************************************************************)
(* The git commands pkgVersionFromGit runs, as functions of the            *)
(* repository.                                                             *)
(***************************************************************************)
\* --exclude "*/v*"
MatchesSubpathGlob(name) == Contains(name, <<"/", "v">>)

DescribeCandidates(r, exclude) ==
    {i \in 1..Len(r.tags) :
        /\ r.tags[i].at <= r.n
        /\ (exclude => ~MatchesSubpathGlob(r.tags[i].name))}

\* The tag git describe names: the closest one to HEAD, the newest one
\* among several on the same commit.
DescribedTag(r, exclude) ==
    LET cand == DescribeCandidates(r, exclude)
    IN  CHOOSE i \in cand :
            \A j \in cand :
                \/ r.tags[j].at < r.tags[i].at
                \/ (r.tags[j].at = r.tags[i].at /\ j <= i)

\* git describe --abbrev=0 --tags --exclude "*/v*"
GitDescribeAbbrev0(r, fault) ==
    IF fault = "describe" \/ r.n = 0 \/ DescribeCandidates(r, TRUE) = {}
    THEN [ok |-> FALSE, out |-> <<>>]
    ELSE [ok |-> TRUE, out |-> r.tags[DescribedTag(r, TRUE)].name \o <<"\n">>]

\* git rev-list --count latestTag..HEAD
GitRevListCount(r, latestTag, fault) ==
    IF fault = "revlist" \/ ~\E i \in 1..Len(r.tags) : r.tags[i].name = latestTag
    THEN [ok |-> FALSE, out |-> <<>>]
    ELSE LET i == CHOOSE k \in 1..Len(r.tags) : r.tags[k].name = latestTag
         IN  [ok |-> TRUE, out |-> Itoa(r.n - r.tags[i].at) \o <<"\n">>]

\* git log --pretty=format:%ct -n1
GitLogCommitterTime(r, fault) ==
    IF fault = "log" \/ r.n = 0
    THEN [ok |-> FALSE, out |-> 0]
    ELSE [ok |-> TRUE, out |-> r.ct]

\* git describe --long --tags
GitDescribeLong(r, fault) ==
    IF fault = "describelong" \/ r.n = 0 \/ DescribeCandidates(r, FALSE) = {}
    THEN [ok |-> FALSE, out |-> <<>>]
    ELSE LET t == r.tags[DescribedTag(r, FALSE)]
         IN  [ok |-> TRUE,
              out |-> t.name \o <<"-">> \o Itoa(r.n - t.at) \o <<"-", "g">>
                        \o HashOf(r.n) \o <<"\n">>]

\* git rev-parse --short HEAD
GitRevParseShort(r, fault) ==
    IF fault = "revparse" \/ r.n = 0
    THEN [ok |-> FALSE, out |-> <<>>]
    ELSE [ok |-> TRUE, out |-> HashOf(r.n) \o <<"\n">>]

(***************************************************************************)
(* describeRegexp = `-\d+-g([0-9a-f]+)\s*$`                                *)
(***************************************************************************)
\* length of the longest suffix of s made of characters of S
RECURSIVE SuffixLen(_, _)
SuffixLen(s, S) ==
    IF s = <<>> \/ s[Len(s)] \notin S THEN 0
    ELSE 1 + SuffixLen(SubSeq(s, 1, Len(s) - 1), S)

\* describeRegexp.FindSubmatch: [ok, sub] with sub the first group
DescribeSubmatch(out) ==
    LET s == SubSeq(out, 1, Len(out) - SuffixLen(out, WhiteSpace))
        h == SuffixLen(s, HexDigits)
        beforeHash == SubSeq(s, 1, Len(s) - h)
        n == Len(beforeHash)
        beforeG == SubSeq(beforeHash, 1, n - 2)
        d == SuffixLen(beforeG, Digits)
        m == Len(beforeG)
    IN  IF /\ h >= 1
           /\ n >= 2
           /\ beforeHash[n] = "g"
           /\ beforeHash[n - 1] = "-"
           /\ d >= 1
           /\ m - d >= 1
           /\ beforeG[m - d] = "-"
        THEN [ok |-> TRUE, sub |-> SubSeq(s, Len(s) - h + 1, Len(s))]
        ELSE [ok |-> FALSE, sub |-> <<>>]

(***************************************************************************)
(* pkgVersionFromGit(gitdir, u, forcePrerelease): the struct as the call   *)
(* leaves it, the returned version and whether an error is returned.       *)
(***************************************************************************)
\* (variant: the failure is dropped)
FailureIgnored(uOut) == [u |-> uOut, version |-> <<>>, err |-> FALSE]

\* return "", err
Failure(uOut) == [u |-> uOut, version |-> <<>>, err |-> TRUE]

\* (variant: a release only when HEAD is exactly at the tag)
ReturnsReleaseAtTagOnly(commitsAhead, forcePrerelease) ==
    commitsAhead = 0 /\ ~forcePrerelease

\* The decision taken once the latest tag is known: return the tag version
\* as a release, or fall through to packaging HEAD.
ReturnsRelease(commitsAhead, forcePrerelease) == ~forcePrerelease

\* (variant: the snapshot is always counted from 0.0)
MainVerZero(uIn) == <<"0", ".", "0", "~">>

\* mainVer of the snapshot
MainVer(uIn) ==
    IF uIn.hasRelease THEN uIn.version \o <<"+">> ELSE <<"0", ".", "0", "~">>

\* "Packaging @master (prerelease)": the part after the tag lookup
SnapshotVersion(r, uIn, fault) ==
    LET mainVer == MainVer(uIn)
        log == GitLogCommitterTime(r, fault)
        long == GitDescribeLong(r, fault)
        revparse == GitRevParseShort(r, fault)
        sub == DescribeSubmatch(long.out)
        hashOk == IF long.ok THEN sub.ok ELSE revparse.ok
        lastCommitHash == IF long.ok THEN sub.sub ELSE TrimSpace(revparse.out)
        uHash == [uIn EXCEPT !.commitIsh =
                     IF long.ok THEN TrimSpace(long.out) ELSE lastCommitHash]
        version == mainVer \o <<"g", "i", "t">> \o FormatDate(log.out)
                     \o <<".">> \o lastCommitHash
    IN  IF ~log.ok THEN Failure(uIn)
        ELSE IF ~hashOk THEN Failure(uIn)
        ELSE [u |-> [uHash EXCEPT !.version = version],
              version |-> version, err |-> FALSE]

PkgVersionFromGit(r, uIn, forcePrerelease, fault) ==
    LET describe == GitDescribeAbbrev0(r, fault)
        latestTag == TrimSpace(describe.out)
        uTag == [uIn EXCEPT !.hasRelease = TRUE, !.tag = latestTag]
        revlist == GitRevListCount(r, latestTag, fault)
        commitsAhead == Atoi(TrimSpace(revlist.out))
        uVer == [uTag EXCEPT !.commitIsh = latestTag,
                             !.version = TrimLeftNonNumber(latestTag)]
    IN  IF describe.ok
        THEN IF ~revlist.ok THEN Failure(uTag)
             ELSE IF ReturnsRelease(commitsAhead, forcePrerelease)
             THEN [u |-> [uVer EXCEPT !.isRelease = TRUE],
                   version |-> uVer.version, err |-> FALSE]
             ELSE SnapshotVersion(r, uVer, fault)
        ELSE SnapshotVersion(r, uIn, fault)

(***************************************************************************)
(* Actions of the version resolver and of the repository it looks at.      *)
(***************************************************************************)
\* git commit, with GIT_COMMITTER_DATE = ct
GitCommit(ct) ==
    /\ ncommits < MaxCommits
    /\ calls < MaxCalls
    /\ ncommits' = ncommits + 1
    /\ headTime' = ct
    /\ vpc' = "idle"
    /\ UNCHANGED <<tags, u, ret, calls>>
    /\ UNCHANGED estimateVars
    /\ UNCHANGED makeVars
    /\ UNCHANGED toolVars
    /\ UNCHANGED getVars

\* git tag name (at HEAD)
GitTag(name) ==
    /\ ncommits > 0
    /\ calls < MaxCalls
    /\ Len(tags) < MaxTags
    /\ \A i \in 1..Len(tags) : tags[i].name # name
    /\ tags' = Append(tags, [name |-> name, at |-> ncommits])
    /\ vpc' = "idle"
    /\ UNCHANGED <<ncommits, headTime, u, ret, calls>>
    /\ UNCHANGED estimateVars
    /\ UNCHANGED makeVars
    /\ UNCHANGED toolVars
    /\ UNCHANGED getVars

\* git tag -d
GitTagDelete(i) ==
    /\ i \in 1..Len(tags)
    /\ calls < MaxCalls
    /\ tags' = SubSeq(tags, 1, i - 1) \o SubSeq(tags, i + 1, Len(tags))
    /\ vpc' = "idle"
    /\ UNCHANGED <<ncommits, headTime, u, ret, calls>>
    /\ UNCHANGED estimateVars
    /\ UNCHANGED makeVars
    /\ UNCHANGED toolVars
    /\ UNCHANGED getVars

\* the caller declares a new struct: var u upstream
NewUpstream ==
    /\ u # ZeroUpstream
    /\ calls < MaxCalls
    /\ u' = ZeroUpstream
    /\ vpc' = "idle"
    /\ UNCHANGED <<ncommits, headTime, tags, ret, calls>>
    /\ UNCHANGED estimateVars
    /\ UNCHANGED makeVars
    /\ UNCHANGED toolVars
    /\ UNCHANGED getVars

CallPkgVersionFromGit(forcePrerelease, fault) ==
    LET r == PkgVersionFromGit(Repo, u, forcePrerelease, fault)
    IN  /\ calls < MaxCalls
        /\ u' = r.u
        /\ ret' = [version |-> r.version, err |-> r.err,
                   force |-> forcePrerelease, fault |-> fault,
                   fresh |-> (u = ZeroUpstream),
                   n |-> ncommits, ct |-> headTime,
                   tag |-> TrimSpace(GitDescribeAbbrev0(Repo, "none").out)]
        /\ vpc' = "returned"
        /\ calls' = calls + 1
        /\ UNCHANGED <<ncommits, headTime, tags>>
        /\ UNCHANGED estimateVars
        /\ UNCHANGED makeVars
        /\ UNCHANGED toolVars
        /\ UNCHANGED getVars

InitVersion ==
    /\ ncommits = 0
    /\ headTime = 0
    /\ tags = <<>>
    /\ u = ZeroUpstream
    /\ ret = NoReturn
    /\ vpc = "idle"
    /\ calls = 0

NextVersion ==
    \/ \E ct \in CommitTimes : GitCommit(ct)
    \/ \E name \in TagNames : GitTag(name)
    \/ \E i \in 1..MaxTags : GitTagDelete(i)
    \/ NewUpstream
    \/ \E force \in BOOLEAN : CallPkgVersionFromGit(force, "none")

\* the same, on a repository whose tags are the releases of one upstream
NextRelease ==
    \/ \E ct \in CommitTimes : GitCommit(ct)
    \/ \E name \in ReleaseTags : GitTag(name)
    \/ \E i \in 1..MaxTags : GitTagDelete(i)
    \/ NewUpstream
    \/ \E force \in BOOLEAN : CallPkgVersionFromGit(force, "none")

\* the same, with any one git invocation of a call made to fail
NextFaults ==
    \/ \E ct \in CommitTimes : GitCommit(ct)
    \/ \E name \in FaultTags : GitTag(name)
    \/ \E i \in 1..MaxTags : GitTagDelete(i)
    \/ NewUpstream
    \/ \E force \in BOOLEAN, fault \in Faults :
          CallPkgVersionFromGit(force, fault)

(***************************************************************************)
(* estimate: module names and the lines of "go mod graph".                 *)
(***************************************************************************)
\* strings.Cut(s, sep) for a one-character separator
RECURSIVE IndexOf(_, _)
IndexOf(s, c) ==
    IF s = <<>> THEN 0
    ELSE IF Head(s) = c THEN 1
    ELSE LET k == IndexOf(Tail(s), c) IN IF k = 0 THEN 0 ELSE k + 1

Cut(s, c) ==
    LET k == IndexOf(s, c)
    IN  IF k = 0 THEN [before |-> s, after |-> <<>>, found |-> FALSE]
        ELSE [before |-> SubSeq(s, 1, k - 1),
              after |-> SubSeq(s, k + 1, Len(s)), found |-> TRUE]

\* (variant: the node name as it is, version included)
ModOfKeepVersion(name) == name

\* the module of a node name: strings.Cut(n.name, "@")
ModOf(name) == Cut(name, "@").before

ImportPath == <<"r">>

ModA == <<"a">>

ModB == <<"b">>

ModBSub == <<"b", "/", "s">>

ModBV2 == <<"b", "/", "v", "2">>

ModBV3 == <<"b", "/", "v", "3">>

ModGo == <<"g", "o">>

ModToolchain == <<"t", "o", "o", "l", "c", "h", "a", "i", "n">>

At(mod, ver) == mod \o <<"@">> \o ver

Line(src, dep) == src \o <<" ">> \o dep

\* The lines "go mod graph" may print, in any order and selection.
GraphLines ==
    { Line(<<"d">>, At(ModA, <<"1">>)),
      Line(At(ImportPath, <<"1">>), At(ModA, <<"1">>)),
      Line(At(<<"r", "/", "x">>, <<"1">>), At(ModA, <<"1">>)),
      Line(At(ImportPath, <<"1">>), At(ModBV3, <<"1">>)),
      Line(At(ModA, <<"1">>), At(ModBSub, <<"1">>)),
      Line(At(ModBV3, <<"1">>), At(ModBSub, <<"1">>)),
      Line(At(ModBSub, <<"1">>), At(ModA, <<"1">>)),
      Line(At(ModA, <<"1">>), At(ModBV2, <<"1">>)),
      Line(At(ModBV2, <<"1">>), At(ModA, <<"2">>)),
      Line(At(ModA, <<"1">>), At(ModGo, <<"1">>)) }

\* The import paths getGolangBinaries may report as packaged in Debian.
PackagedSets == { {}, {ModB, ModBV3} }

\* vcs.RepoRootForImportPath(mod, false).Root, or mod when it fails: the
\* repository of an import path is its first path element here.
RepoRoot(mod) == Cut(mod, "/").before

(***************************************************************************)
(* majorVersionRegexp = `([/.])v([0-9]+)$` and otherVersions.              *)
(***************************************************************************)
MajorVersionMatch(mod) ==
    LET d == SuffixLen(mod, Digits)
        n == Len(mod)
    IN  IF /\ d >= 1
           /\ n - d >= 2
           /\ mod[n - d] = "v"
           /\ mod[n - d - 1] \in {"/", "."}
        THEN [ok |-> TRUE,
              full |-> SubSeq(mod, n - d - 1, n),
              sep |-> <<mod[n - d - 1]>>,
              ver |-> SubSeq(mod, n - d + 1, n)]
        ELSE [ok |-> FALSE, full |-> <<>>, sep |-> <<>>, ver |-> <<>>]

\* for v := from; v > 1; v-- { mods = append(mods, prefix+sep+"v"+Itoa(v)) }
RECURSIVE LowerVersions(_, _, _)
LowerVersions(prefix, sep, from) ==
    IF from > 1
    THEN <<prefix \o sep \o <<"v">> \o Itoa(from)>> \o LowerVersions(prefix, sep, from - 1)
    ELSE <<>>

OtherVersions(mod) ==
    LET m == MajorVersionMatch(mod)
        prefix == SubSeq(mod, 1, Len(mod) - Len(m.full))
    IN  IF ~m.ok THEN <<>>
        ELSE LowerVersions(prefix, m.sep, Atoi(m.ver) - 1) \o <<prefix>>

(***************************************************************************)
(* estimate: building the graph (estimate.go:143-176).                     *)
(***************************************************************************)
\* nodes[name], created with no children when missing
WithNode(ch, name) ==
    IF name \in DOMAIN ch THEN ch
    ELSE [k \in DOMAIN ch \cup {name} |-> IF k = name THEN <<>> ELSE ch[k]]

\* the source node of a line: the root for the root module and its
\* sub-modules
SrcOf(src) ==
    LET mod == Cut(src, "@").before
    IN  IF mod = ImportPath \/ HasPrefix(mod, ImportPath \o <<"/">>)
        THEN ImportPath
        ELSE src

\* one iteration of the loop over the lines of go mod graph
AddLine(ch, line) ==
    LET c == Cut(line, " ")
        dep == c.after
        src == SrcOf(c.before)
        withBoth == WithNode(WithNode(ch, dep), src)
    IN  IF ~Cut(c.before, "@").found THEN ch
        ELSE [withBoth EXCEPT ![src] = Append(@, dep)]

(***************************************************************************)
(* estimate: one call of visit up to its loop over the children            *)
(* (estimate.go:184-248).  st holds lines, seen, rrseen and needed; the    *)
(* result says whether the call goes on to visit the children.             *)
(***************************************************************************)
\* After the repeat line of an already needed module, the call goes on to
\* the loop over n.children (there is no return in that branch).
DescendsAfterRepeat == TRUE

\* (variant: the exact name is not looked up)
IsPackagedNever(mod, gb) == FALSE

\* if _, ok := golangBinaries[mod]; ok { return }
IsPackaged(mod, gb) == mod \in gb

\* the first other major version found in golangBinaries, or ""
RECURSIVE FirstPackaged(_, _)
FirstPackaged(mods, gb) ==
    IF mods = <<>> THEN <<>>
    ELSE IF Head(mods) \in gb THEN Head(mods)
    ELSE FirstPackaged(Tail(mods), gb)

\* (variant: the repository root is tried whatever the other versions gave)
PackagedByRepoRootAlways(mod, gb) == RepoRoot(mod) \in gb

\* The module counts as packaged through its repository root; tried only
\* when no other major version was found.
PackagedByRepoRoot(mod, gb) ==
    FirstPackaged(OtherVersions(mod), gb) = <<>> /\ RepoRoot(mod) \in gb

NeededLine(mod, indent, st, gb) ==
    LET repoRoot == RepoRoot(mod)
    IN  [kind |-> "needed", mod |-> mod, indent |-> indent, count |-> 1,
         style |-> IF repoRoot \in st.rrseen THEN "grey"
                   ELSE IF HasPrefix(mod, repoRoot) /\ Len(mod) > Len(repoRoot)
                   THEN "greysuffix"
                   ELSE "plain",
         inDebian |-> FirstPackaged(OtherVersions(mod), gb)]

RepeatLine(mod, indent, count) ==
    [kind |-> "repeat", mod |-> mod, indent |-> indent, count |-> count,
     style |-> "grey", inDebian |-> <<>>]

\* the escape sequences "\033[90m" and "\033[0m"; "ESC" stands for the one
\* character \033
Grey == <<"ESC", "[", "9", "0", "m">>

Reset == <<"ESC", "[", "0", "m">>

\* (variant: one space per level)
IndentationOneSpace(indent) == [i \in 1..indent |-> " "]

\* strings.Repeat("  ", indent)
Indentation(indent) == [i \in 1..(2 * indent) |-> " "]

\* the string appended to lines for a line of the report
Render(l) ==
    IF l.kind = "repeat"
    THEN Indentation(l.indent) \o Grey \o l.mod \o <<" ", "(">> \o Itoa(l.count)
            \o <<")">> \o Reset
    ELSE Indentation(l.indent)
            \o (CASE l.style = "grey" -> Grey \o l.mod \o Reset
                   [] l.style = "greysuffix" ->
                        RepoRoot(l.mod) \o Grey
                            \o SubSeq(l.mod, Len(RepoRoot(l.mod)) + 1, Len(l.mod))
                            \o Reset
                   [] OTHER -> l.mod)
            \o (IF l.inDebian # <<>>
                THEN <<"\t", "(">> \o l.inDebian
                        \o <<" ", "i", "n", " ", "D", "e", "b", "i", "a", "n", ")">>
                ELSE <<>>)

\* fmt.Println(line): the line with the text that is printed
Println(l) ==
    [f \in DOMAIN l \cup {"text"} |-> IF f = "text" THEN Render(l) ELSE l[f]]

SetNeeded(nd, mod, count) ==
    [k \in DOMAIN nd \cup {mod} |-> IF k = mod THEN count ELSE nd[k]]

VisitEnter(name, indent, st, gb) ==
    LET mod == ModOf(name)
        stSeen == [st EXCEPT !.seen = @ \cup {mod}]
    IN  IF mod \in DOMAIN st.needed
        THEN [st |-> [st EXCEPT
                        !.needed = SetNeeded(@, mod, st.needed[mod] + 1),
                        !.lines = Append(@, RepeatLine(mod, indent, st.needed[mod] + 1))],
              descend |-> DescendsAfterRepeat]
        ELSE IF mod \in st.seen
        THEN [st |-> st, descend |-> FALSE]
        ELSE IF mod = ModGo \/ mod = ModToolchain
        THEN [st |-> stSeen, descend |-> FALSE]
        ELSE IF IsPackaged(mod, gb)
        THEN [st |-> stSeen, descend |-> FALSE]
        ELSE IF PackagedByRepoRoot(mod, gb)
        THEN [st |-> stSeen, descend |-> FALSE]
        ELSE [st |-> [stSeen EXCEPT
                        !.lines = Append(@, NeededLine(mod, indent, st, gb)),
                        !.rrseen = @ \cup {RepoRoot(mod)},
                        !.needed = SetNeeded(@, mod, 1)],
              descend |-> TRUE]

\* one more entry into the loop over the children of node name
Counted(en, name) ==
    [k \in DOMAIN en \cup {name} |->
        IF k = name THEN (IF name \in DOMAIN en THEN en[name] + 1 ELSE 1)
        ELSE en[k]]

WalkState == [lines |-> lines, seen |-> seen, rrseen |-> rrseen, needed |-> needed]

(***************************************************************************)
(* Actions of estimate.                                                    *)
(***************************************************************************)
\* (variant: the failure is not returned)
GoModGraphReturnsNil(ok) ==
    /\ epc = "graph"
    /\ epc' = IF ok THEN "binaries" ELSE "graphfailed"
    /\ eret' = IF ok THEN eret ELSE "nil"
    /\ UNCHANGED <<golangBinaries, modGraph, children, lines, seen, rrseen,
                   needed, stack, stdout, enumerated>>
    /\ UNCHANGED versionVars
    /\ UNCHANGED makeVars
    /\ UNCHANGED toolVars
    /\ UNCHANGED getVars

\* cmd.Output() of "go mod graph"
GoModGraph(ok) ==
    /\ epc = "graph"
    /\ epc' = IF ok THEN "binaries" ELSE "graphfailed"
    /\ eret' = IF ok THEN eret ELSE "error"
    /\ UNCHANGED <<golangBinaries, modGraph, children, lines, seen, rrseen,
                   needed, stack, stdout, enumerated>>
    /\ UNCHANGED versionVars
    /\ UNCHANGED makeVars
    /\ UNCHANGED toolVars
    /\ UNCHANGED getVars

\* golangBinaries, err := getGolangBinaries(); if err != nil { return nil }
GetGolangBinaries(ok, gb) ==
    /\ epc = "binaries"
    /\ epc' = IF ok THEN "build" ELSE "binariesfailed"
    /\ eret' = IF ok THEN eret ELSE "nil"
    /\ golangBinaries' = IF ok THEN gb ELSE golangBinaries
    /\ UNCHANGED <<modGraph, children, lines, seen, rrseen, needed, stack,
                   stdout, enumerated>>
    /\ UNCHANGED versionVars
    /\ UNCHANGED makeVars
    /\ UNCHANGED toolVars
    /\ UNCHANGED getVars

\* the loop body for the next line of the output
ReadLine(line) ==
    /\ epc = "build"
    /\ Len(modGraph) < MaxEdges
    /\ \A i \in 1..Len(modGraph) : modGraph[i] # line
    /\ modGraph' = Append(modGraph, line)
    /\ children' = AddLine(children, line)
    /\ UNCHANGED <<epc, eret, golangBinaries, lines, seen, rrseen, needed,
                   stack, stdout, enumerated>>
    /\ UNCHANGED versionVars
    /\ UNCHANGED makeVars
    /\ UNCHANGED toolVars
    /\ UNCHANGED getVars

\* visit(root, 0)
StartVisit ==
    LET r == VisitEnter(ImportPath, 0, WalkState, golangBinaries)
    IN  /\ epc = "build"
        /\ epc' = "walk"
        /\ lines' = r.st.lines
        /\ seen' = r.st.seen
        /\ rrseen' = r.st.rrseen
        /\ needed' = r.st.needed
        /\ stack' = IF r.descend
                    THEN <<[node |-> ImportPath, next |-> 1, indent |-> 0]>>
                    ELSE <<>>
        /\ enumerated' = IF r.descend THEN Counted(enumerated, ImportPath)
                          ELSE enumerated
        /\ UNCHANGED <<eret, golangBinaries, modGraph, children, stdout>>
        /\ UNCHANGED versionVars
        /\ UNCHANGED makeVars
        /\ UNCHANGED toolVars
        /\ UNCHANGED getVars

\* for _, n := range n.children { visit(n, indent+1) }: the next child
VisitChild ==
    /\ epc = "walk"
    /\ stack # <<>>
    /\ LET top == stack[Len(stack)]
           kids == children[top.node]
       IN  /\ top.next <= Len(kids)
           /\ LET r == VisitEnter(kids[top.next], top.indent + 1, WalkState,
                                  golangBinaries)
                  advanced == [stack EXCEPT ![Len(stack)].next = top.next + 1]
              IN  /\ lines' = r.st.lines
                  /\ seen' = r.st.seen
                  /\ rrseen' = r.st.rrseen
                  /\ needed' = r.st.needed
                  /\ enumerated' = IF r.descend
                                    THEN Counted(enumerated, kids[top.next])
                                    ELSE enumerated
                  /\ IF r.descend /\ Len(stack) >= MaxStack
                     THEN /\ epc' = "overflow"
                          /\ stack' = advanced
                     ELSE /\ epc' = epc
                          /\ stack' = IF r.descend
                                      THEN Append(advanced,
                                                  [node |-> kids[top.next], next |-> 1,
                                                   indent |-> top.indent + 1])
                                      ELSE advanced
    /\ UNCHANGED <<eret, golangBinaries, modGraph, children, stdout>>
    /\ UNCHANGED versionVars
    /\ UNCHANGED makeVars
    /\ UNCHANGED toolVars
    /\ UNCHANGED getVars

\* the loop over the children is over: visit returns
VisitReturn ==
    /\ epc = "walk"
    /\ stack # <<>>
    /\ stack[Len(stack)].next > Len(children[stack[Len(stack)].node])
    /\ stack' = SubSeq(stack, 1, Len(stack) - 1)
    /\ UNCHANGED <<epc, eret, golangBinaries, modGraph, children, lines, seen,
                   rrseen, needed, stdout, enumerated>>
    /\ UNCHANGED versionVars
    /\ UNCHANGED makeVars
    /\ UNCHANGED toolVars
    /\ UNCHANGED getVars

\* after visit(root, 0): print the lines and return nil
PrintReport ==
    /\ epc = "walk"
    /\ stack = <<>>
    /\ stdout' = [i \in 1..Len(lines) |-> Println(lines[i])]
    /\ epc' = "done"
    /\ eret' = "nil"
    /\ UNCHANGED <<golangBinaries, modGraph, children, lines, seen, rrseen,
                   needed, stack, enumerated>>
    /\ UNCHANGED versionVars
    /\ UNCHANGED makeVars
    /\ UNCHANGED toolVars
    /\ UNCHANGED getVars

InitEstimate ==
    /\ epc = "graph"
    /\ eret = "none"
    /\ golangBinaries = {}
    /\ modGraph = <<>>
    /\ children = [k \in {ImportPath} |-> <<>>]
    /\ lines = <<>>
    /\ seen = {}
    /\ rrseen = {}
    /\ needed = <<>>
    /\ stack = <<>>
    /\ stdout = <<>>
    /\ enumerated = <<>>

NextEstimate ==
    \/ \E ok \in BOOLEAN : GoModGraph(ok)
    \/ \E ok \in BOOLEAN, gb \in PackagedSets : GetGolangBinaries(ok, gb)
    \/ \E line \in GraphLines : ReadLine(line)
    \/ StartVisit
    \/ VisitChild
    \/ VisitReturn
    \/ PrintReport

(***************************************************************************)
(* execMake (make.go): the already-packaged list is fetched by a task of   *)
(* the errgroup eg while the main flow downloads the upstream source.      *)
(***************************************************************************)
\* the import path being packaged
gopkg == <<"r">>

\* what getGolangBinaries may return: import path -> Debian binary package
BinariesMaps ==
    { {},
      {[path |-> ModA, bin |-> "golang-a-dev"]},
      {[path |-> ModA, bin |-> "golang-a-dev"],
       [path |-> gopkg, bin |-> "golang-r-dev"]} }

\* u.repoDeps: sequences of at most MaxDeps import paths
RepoDepsChoices ==
    UNION { [1..n -> {ModA, ModBSub}] : n \in 0..MaxDeps }

\* golangBinaries[key]
Lookup(m, key) ==
    IF \E e \in m : e.path = key
    THEN [ok |-> TRUE, bin |-> (CHOOSE e \in m : e.path = key).bin]
    ELSE [ok |-> FALSE, bin |-> ""]

\* eg.Go(func() error { ... }): the task starts; the main flow goes on to
\* makeUpstreamSourceTarball
EgGo ==
    /\ mpc = "start"
    /\ mpc' = "download"
    /\ fpc' = "running"
    /\ UNCHANGED <<makeBinaries, egErr, repoDeps, depNext, debdependencies,
                   warned, writtenAt, overlap>>
    /\ UNCHANGED versionVars
    /\ UNCHANGED estimateVars
    /\ UNCHANGED toolVars
    /\ UNCHANGED getVars

\* in the task: golangBinaries, err = getGolangBinaries()
FetchAssign(ok, m) ==
    /\ fpc = "running"
    /\ mpc # "fatal"
    /\ makeBinaries' = IF ok THEN m ELSE {}
    /\ egErr' = ~ok
    /\ fpc' = "assigned"
    /\ writtenAt' = mpc
    /\ overlap' = (overlap \/ mpc \in {"deps", "done"})
    /\ UNCHANGED <<mpc, repoDeps, depNext, debdependencies, warned>>
    /\ UNCHANGED versionVars
    /\ UNCHANGED estimateVars
    /\ UNCHANGED toolVars
    /\ UNCHANGED getVars

\* in the task: return err
FetchReturn ==
    /\ fpc = "assigned"
    /\ mpc # "fatal"
    /\ fpc' = "done"
    /\ UNCHANGED <<mpc, makeBinaries, egErr, repoDeps, depNext,
                   debdependencies, warned, writtenAt, overlap>>
    /\ UNCHANGED versionVars
    /\ UNCHANGED estimateVars
    /\ UNCHANGED toolVars
    /\ UNCHANGED getVars

\* u, err := makeUpstreamSourceTarball(gopkg, gitRevision); log.Fatalf on err
MakeUpstreamSourceTarball(ok, deps) ==
    /\ mpc = "download"
    /\ mpc' = IF ok THEN "stat" ELSE "fatal"
    /\ repoDeps' = IF ok THEN deps ELSE repoDeps
    /\ UNCHANGED <<fpc, makeBinaries, egErr, depNext, debdependencies,
                   warned, writtenAt, overlap>>
    /\ UNCHANGED versionVars
    /\ UNCHANGED estimateVars
    /\ UNCHANGED toolVars
    /\ UNCHANGED getVars

\* if _, err := os.Stat(debsrc); err == nil { log.Fatalf(...) }
StatDebsrc(exists) ==
    /\ mpc = "stat"
    /\ mpc' = IF exists THEN "fatal" ELSE "wait"
    /\ UNCHANGED <<fpc, makeBinaries, egErr, repoDeps, depNext,
                   debdependencies, warned, writtenAt, overlap>>
    /\ UNCHANGED versionVars
    /\ UNCHANGED estimateVars
    /\ UNCHANGED toolVars
    /\ UNCHANGED getVars

\* (variant: the main flow does not wait for the task)
EgWaitNoJoin ==
    /\ mpc = "wait"
    /\ mpc' = "check"
    /\ UNCHANGED <<fpc, makeBinaries, egErr, repoDeps, depNext,
                   debdependencies, warned, writtenAt, overlap>>
    /\ UNCHANGED versionVars
    /\ UNCHANGED estimateVars
    /\ UNCHANGED toolVars
    /\ UNCHANGED getVars

\* if err := eg.Wait(); err != nil { log.Printf(...) }: returns once the
\* task has returned
EgWait ==
    /\ mpc = "wait"
    /\ fpc = "done"
    /\ mpc' = "check"
    /\ UNCHANGED <<fpc, makeBinaries, egErr, repoDeps, depNext,
                   debdependencies, warned, writtenAt, overlap>>
    /\ UNCHANGED versionVars
    /\ UNCHANGED estimateVars
    /\ UNCHANGED toolVars
    /\ UNCHANGED getVars

\* if debbin, ok := golangBinaries[gopkg]; ok { warn }, then the orig
\* tarball and the git repository (log.Fatalf when they fail)
CheckAlreadyPackaged(ok) ==
    /\ mpc = "check"
    /\ warned' = Lookup(makeBinaries, gopkg).ok
    /\ overlap' = (overlap \/ fpc # "done")
    /\ mpc' = IF ok THEN "deps" ELSE "fatal"
    /\ UNCHANGED <<fpc, makeBinaries, egErr, repoDeps, depNext,
                   debdependencies, writtenAt>>
    /\ UNCHANGED versionVars
    /\ UNCHANGED estimateVars
    /\ UNCHANGED toolVars
    /\ UNCHANGED getVars

\* one iteration of: for _, dep := range u.repoDeps { ... }
NextRepoDep ==
    /\ mpc = "deps"
    /\ depNext <= Len(repoDeps)
    /\ LET dep == repoDeps[depNext]
           found == Lookup(makeBinaries, dep)
       IN  debdependencies' =
               IF makeBinaries = {}
               THEN Append(debdependencies, [heuristic |-> TRUE, of |-> dep])
               ELSE IF ~found.ok THEN debdependencies
               ELSE Append(debdependencies, [heuristic |-> FALSE, of |-> found.bin])
    /\ depNext' = depNext + 1
    /\ overlap' = (overlap \/ fpc # "done")
    /\ UNCHANGED <<mpc, fpc, makeBinaries, egErr, repoDeps, warned, writtenAt>>
    /\ UNCHANGED versionVars
    /\ UNCHANGED estimateVars
    /\ UNCHANGED toolVars
    /\ UNCHANGED getVars

\* writeTemplates(..., debdependencies, ...) and the rest of execMake
WriteTemplates ==
    /\ mpc = "deps"
    /\ depNext > Len(repoDeps)
    /\ mpc' = "done"
    /\ UNCHANGED <<fpc, makeBinaries, egErr, repoDeps, depNext,
                   debdependencies, warned, writtenAt, overlap>>
    /\ UNCHANGED versionVars
    /\ UNCHANGED estimateVars
    /\ UNCHANGED toolVars
    /\ UNCHANGED getVars

InitMake ==
    /\ mpc = "start"
    /\ fpc = "none"
    /\ makeBinaries = {}
    /\ egErr = FALSE
    /\ repoDeps = <<>>
    /\ depNext = 1
    /\ debdependencies = <<>>
    /\ warned = FALSE
    /\ writtenAt = "never"
    /\ overlap = FALSE

NextMake ==
    \/ EgGo
    \/ \E ok \in BOOLEAN, m \in BinariesMaps : FetchAssign(ok, m)
    \/ FetchReturn
    \/ \E ok \in BOOLEAN, deps \in RepoDepsChoices :
          MakeUpstreamSourceTarball(ok, deps)
    \/ \E exists \in BOOLEAN : StatDebsrc(exists)
    \/ EgWait
    \/ \E ok \in BOOLEAN : CheckAlreadyPackaged(ok)
    \/ NextRepoDep
    \/ WriteTemplates

(***************************************************************************)
(* check-depends (check_depends.go): go.mod against debian/control.        *)
(***************************************************************************)
\* strings.HasSuffix
HasSuffix(s, p) ==
    Len(p) <= Len(s) /\ SubSeq(s, Len(s) - Len(p) + 1, Len(s)) = p

\* strings.Trim(s, "\n")
RECURSIVE TrimNewlines(_)
TrimNewlines(s) ==
    IF s = <<>> THEN <<>>
    ELSE IF Head(s) = "\n" THEN TrimNewlines(Tail(s))
    ELSE IF s[Len(s)] = "\n" THEN TrimNewlines(SubSeq(s, 1, Len(s) - 1))
    ELSE s

\* an import path no version-control host answers for
ModUnknown == <<"u", "/", "x">>

\* modFile.Require: at most MaxReqs requirements, each direct or indirect
Requires ==
    UNION { [1..n -> [path : {ModA, ModBSub, ModBV2, ModUnknown},
                      indirect : BOOLEAN]] : n \in 0..MaxReqs }

PkgA == <<"a", "-", "d", "e", "v">>

PkgB == <<"b", "-", "d", "e", "v">>

\* what getGolangBinaries may return to check-depends
GoBinaries ==
    { {},
      {[path |-> ModA, bin |-> PkgA]},
      {[path |-> ModA, bin |-> PkgA], [path |-> ModB, bin |-> PkgB]} }

\* the names of ctrl.Source.BuildDepends.GetAllPossibilities()
PossibilityNames ==
    { PkgA, <<"\n", "b", "-", "d", "e", "v">>, <<"d", "h">>, <<"a", "n", "y", "-", "d", "e", "v", "e", "l">>, <<"d", "e", "v">> }

BuildDepends ==
    UNION { [1..n -> PossibilityNames] : n \in 0..MaxBuildDeps }

\* vcs.RepoRootForImportPath(path, false)
RepoRootForImportPath(path) ==
    IF RepoRoot(path) = RepoRoot(ModUnknown)
    THEN [root |-> <<>>, err |-> TRUE]
    ELSE [root |-> RepoRoot(path), err |-> FALSE]

\* the body of the loop over modFile.Require
RECURSIVE ParseRequire(_, _)
ParseRequire(require, goBinaries) ==
    IF require = <<>> THEN <<>>
    ELSE LET r == Head(require)
             rr == RepoRootForImportPath(r.path)
             val == Lookup(goBinaries, rr.root)
             rest == ParseRequire(Tail(require), goBinaries)
         IN  IF r.indirect \/ rr.err THEN rest
             ELSE <<[importPath |-> rr.root,
                     packageName |-> IF val.ok THEN val.bin ELSE <<>>]>>
                  \o rest

\* parseGoModDependencies; readOk is whether go.mod was read and parsed
ParseGoModDependencies(readOk, require, goBinaries) ==
    IF ~readOk THEN [deps |-> <<>>, err |-> TRUE]
    ELSE [deps |-> ParseRequire(require, goBinaries), err |-> FALSE]

\* (variant: every possibility is kept)
IsDevPackageAlways(packageName) == TRUE

\* strings.HasSuffix(packageName, "-dev")
IsDevPackage(packageName) == HasSuffix(packageName, <<"-", "d", "e", "v">>)

\* the body of the loop over the build dependencies
RECURSIVE ParsePossibilities(_)
ParsePossibilities(names) ==
    IF names = <<>> THEN <<>>
    ELSE LET packageName == TrimNewlines(Head(names))
             rest == ParsePossibilities(Tail(names))
         IN  IF ~IsDevPackage(packageName) THEN rest
             ELSE <<[importPath |-> <<>>, packageName |-> packageName]>>
                  \o rest

\* parseDebianControlDependencies; readOk is whether debian/control parsed
ParseDebianControlDependencies(readOk, names) ==
    IF ~readOk THEN [deps |-> <<>>, err |-> TRUE]
    ELSE [deps |-> ParsePossibilities(names), err |-> FALSE]

\* found: some entry of deps carries this package name
FoundIn(deps, packageName) ==
    \E i \in 1..Len(deps) : deps[i].packageName = packageName

NewUnpackagedLine(dep) ==
    [text |-> "NEW dependency is NOT yet packaged in Debian",
     importPath |-> dep.importPath, packageName |-> dep.packageName]

NewLine(dep) ==
    [text |-> "NEW dependency",
     importPath |-> dep.importPath, packageName |-> dep.packageName]

RmLine(dep) ==
    [text |-> "RM dependency",
     importPath |-> dep.importPath, packageName |-> dep.packageName]

InSyncLine ==
    [text |-> "go.mod and d/control are in sync",
     importPath |-> <<>>, packageName |-> <<>>]

\* the loop over goModDepds; st is [stdout, hasChanged]
RECURSIVE CheckNew(_, _, _)
CheckNew(goModDepds, packageDeps, st) ==
    IF goModDepds = <<>> THEN st
    ELSE LET goModDep == Head(goModDepds)
             st2 == IF goModDep.packageName = <<>>
                    THEN [st EXCEPT !.stdout = @ \o <<NewUnpackagedLine(goModDep)>>]
                    ELSE IF ~FoundIn(packageDeps, goModDep.packageName)
                    THEN [stdout |-> st.stdout \o <<NewLine(goModDep)>>,
                          hasChanged |-> TRUE]
                    ELSE st
         IN  CheckNew(Tail(goModDepds), packageDeps, st2)

\* the loop over packageDeps
RECURSIVE CheckRemoved(_, _, _)
CheckRemoved(packageDeps, goModDepds, st) ==
    IF packageDeps = <<>> THEN st
    ELSE LET packageDep == Head(packageDeps)
             st2 == IF ~FoundIn(goModDepds, packageDep.packageName)
                    THEN [stdout |-> st.stdout \o <<RmLine(packageDep)>>,
                          hasChanged |-> TRUE]
                    ELSE st
         IN  CheckRemoved(Tail(packageDeps), goModDepds, st2)

CheckDependsFaults == {"none", "getwd", "binaries", "gomod", "control"}

\* execCheckDepends: any failure ends the program in log.Fatalf
ExecCheckDepends(fault, require, goBinaries, names) ==
    LET goModDepds == ParseGoModDependencies(fault # "gomod", require, goBinaries)
        packageDeps == ParseDebianControlDependencies(fault # "control", names)
        st1 == CheckNew(goModDepds.deps, packageDeps.deps,
                        [stdout |-> <<>>, hasChanged |-> FALSE])
        st2 == CheckRemoved(packageDeps.deps, goModDepds.deps, st1)
    IN  IF fault \in {"getwd", "binaries"} \/ goModDepds.err \/ packageDeps.err
        THEN [fatal |-> TRUE, stdout |-> <<>>,
              goModDepds |-> <<>>, packageDeps |-> <<>>]
        ELSE [fatal |-> FALSE,
              stdout |-> IF ~st2.hasChanged THEN st2.stdout \o <<InSyncLine>>
                         ELSE st2.stdout,
              goModDepds |-> goModDepds.deps, packageDeps |-> packageDeps.deps]

CallParseGoModDependencies ==
    /\ fn = "none"
    /\ \E readOk \in BOOLEAN, require \in Requires, goBinaries \in GoBinaries :
         /\ fn' = "parseGoModDependencies"
         /\ arg' = [require |-> require, goBinaries |-> goBinaries]
         /\ result' = ParseGoModDependencies(readOk, require, goBinaries)
    /\ UNCHANGED <<versionVars, estimateVars, makeVars, getVars>>

CallParseDebianControlDependencies ==
    /\ fn = "none"
    /\ \E readOk \in BOOLEAN, names \in BuildDepends :
         /\ fn' = "parseDebianControlDependencies"
         /\ arg' = [names |-> names]
         /\ result' = ParseDebianControlDependencies(readOk, names)
    /\ UNCHANGED <<versionVars, estimateVars, makeVars, getVars>>

CallExecCheckDepends ==
    /\ fn = "none"
    /\ \E fault \in CheckDependsFaults, require \in Requires,
          goBinaries \in GoBinaries, names \in BuildDepends :
         /\ fn' = "execCheckDepends"
         /\ arg' = [require |-> require, goBinaries |-> goBinaries,
                    names |-> names]
         /\ result' = ExecCheckDepends(fault, require, goBinaries, names)
    /\ UNCHANGED <<versionVars, estimateVars, makeVars, getVars>>

(***************************************************************************)
(* Debian names (make.go): normalizeDebianProgramName, debianNameFromGopkg.*)
(***************************************************************************)
UpperCase ==
    <<"A", "B", "C", "D", "E", "F", "G", "H", "I", "J", "K", "L", "M",
      "N", "O", "P", "Q", "R", "S", "T", "U", "V", "W", "X", "Y", "Z">>

LowerCase ==
    <<"a", "b", "c", "d", "e", "f", "g", "h", "i", "j", "k", "l", "m",
      "n", "o", "p", "q", "r", "s", "t", "u", "v", "w", "x", "y", "z">>

IsUpper(r) == \E i \in 1..26 : UpperCase[i] = r

IsLower(r) == \E i \in 1..26 : LowerCase[i] = r

\* r + ('a' - 'A')
ToLowerRune(r) ==
    IF IsUpper(r) THEN LowerCase[CHOOSE i \in 1..26 : UpperCase[i] = r] ELSE r

\* strings.ToLower
ToLower(s) == [i \in 1..Len(s) |-> ToLowerRune(s[i])]

\* strings.Replace(s, "_", "-", -1)
ReplaceUnderscore(s) == [i \in 1..Len(s) |-> IF s[i] = "_" THEN "-" ELSE s[i]]

\* strings.Trim(s, "-")
RECURSIVE TrimHyphens(_)
TrimHyphens(s) ==
    IF s = <<>> THEN <<>>
    ELSE IF Head(s) = "-" THEN TrimHyphens(Tail(s))
    ELSE IF s[Len(s)] = "-" THEN TrimHyphens(SubSeq(s, 1, Len(s) - 1))
    ELSE s

\* lowerDigitPlusMinusDot: the runes a rune is mapped to, none when dropped
LowerDigitPlusMinusDot(r) ==
    IF IsLower(r) \/ r \in Digits THEN <<r>>
    ELSE IF IsUpper(r) THEN <<ToLowerRune(r)>>
    ELSE IF r \in {".", "+", "-"} THEN <<r>>
    ELSE IF r = "_" THEN <<"-">>
    ELSE <<>>

\* strings.Map(lowerDigitPlusMinusDot, str)
RECURSIVE MapRunes(_)
MapRunes(str) ==
    IF str = <<>> THEN <<>>
    ELSE LowerDigitPlusMinusDot(Head(str)) \o MapRunes(Tail(str))

NormalizeDebianProgramName(str) ==
    LET safe == TrimHyphens(MapRunes(str))
    IN  IF Len(safe) < 2 THEN <<"T", "O", "D", "O">> ELSE safe

\* strings.Split(s, sep) for a one-character separator
RECURSIVE Split(_, _)
Split(s, sep) ==
    LET c == Cut(s, sep)
    IN  IF ~c.found THEN <<s>> ELSE <<c.before>> \o Split(c.after, sep)

\* strings.Join(parts, "-")
RECURSIVE JoinHyphen(_)
JoinHyphen(parts) ==
    IF parts = <<>> THEN <<>>
    ELSE IF Len(parts) = 1 THEN parts[1]
    ELSE parts[1] \o <<"-">> \o JoinHyphen(Tail(parts))

\* the hosters debianNameFromGopkg knows, with their canonical names
KnownHosters ==
    { [host |-> <<"g", "i", "t", "h", "u", "b", ".", "c", "o", "m">>, name |-> <<"g", "i", "t", "h", "u", "b">>],
      [host |-> <<"c", "o", "d", "e", ".", "g", "o", "o", "g", "l", "e", ".", "c", "o", "m">>, name |-> <<"g", "o", "o", "g", "l", "e", "c", "o", "d", "e">>],
      [host |-> <<"c", "l", "o", "u", "d", ".", "g", "o", "o", "g", "l", "e", ".", "c", "o", "m">>, name |-> <<"g", "o", "o", "g", "l", "e", "c", "l", "o", "u", "d">>],
      [host |-> <<"g", "o", "p", "k", "g", ".", "i", "n">>, name |-> <<"g", "o", "p", "k", "g">>],
      [host |-> <<"g", "o", "l", "a", "n", "g", ".", "o", "r", "g">>, name |-> <<"g", "o", "l", "a", "n", "g">>],
      [host |-> <<"g", "o", "o", "g", "l", "e", ".", "g", "o", "l", "a", "n", "g", ".", "o", "r", "g">>, name |-> <<"g", "o", "o", "g", "l", "e">>],
      [host |-> <<"b", "i", "t", "b", "u", "c", "k", "e", "t", ".", "o", "r", "g">>, name |-> <<"b", "i", "t", "b", "u", "c", "k", "e", "t">>],
      [host |-> <<"b", "a", "z", "i", "l", ".", "o", "r", "g">>, name |-> <<"b", "a", "z", "i", "l">>],
      [host |-> <<"p", "a", "u", "l", "t", ".", "a", "g">>, name |-> <<"p", "a", "u", "l", "t">>],
      [host |-> <<"h", "o", "w", "e", "t", "t", ".", "n", "e", "t">>, name |-> <<"h", "o", "w", "e", "t", "t">>],
      [host |-> <<"g", "o", "4", ".", "o", "r", "g">>, name |-> <<"g", "o", "4">>] }

IsKnownHoster(host) == \E h \in KnownHosters : h.host = host

\* publicsuffix.PublicSuffix(host): the last label, for the hosts used here
RECURSIVE PublicSuffix(_)
PublicSuffix(host) ==
    LET c == Cut(host, ".")
    IN  IF ~c.found THEN host ELSE PublicSuffix(c.after)

\* (variant: the host is kept as it is)
CanonicalHostKept(host) == host

\* the canonical name of a known hoster
CanonicalHost(host) == (CHOOSE h \in KnownHosters : h.host = host).name

\* debianNameFromGopkg; exit is "fatal" after log.Fatalf and "panic" when
\* the slice bounds are out of range
DebianNameFromGopkg(path, t, allowUnknownHoster) ==
    LET parts == Split(path, "/")
        host == parts[1]
        cut == Len(host) - Len(PublicSuffix(host)) - 1
        name(h) ==
            TrimHyphens(<<"g", "o", "l", "a", "n", "g", "-">> \o
                ToLower(ReplaceUnderscore(JoinHyphen(<<h>> \o Tail(parts)))))
    IN  IF t = "program"
        THEN [exit |-> "ok", out |-> NormalizeDebianProgramName(parts[Len(parts)])]
        ELSE IF IsKnownHoster(host)
        THEN [exit |-> "ok", out |-> name(CanonicalHost(host))]
        ELSE IF ~allowUnknownHoster THEN [exit |-> "fatal", out |-> <<>>]
        ELSE IF cut < 0 THEN [exit |-> "panic", out |-> <<>>]
        ELSE [exit |-> "ok", out |-> name(SubSeq(host, 1, cut))]

\* the characters program names are made of here
NameChars == {"a", "D", "7", "_", "-", ".", "+", "*"}

ProgramNames == UNION { [1..n -> NameChars] : n \in 0..MaxName }

Hosts == {<<"g", "i", "t", "h", "u", "b", ".", "c", "o", "m">>, <<"g", "o", "p", "k", "g", ".", "i", "n">>, <<"g", "o", "4", ".", "o", "r", "g">>, <<"x", ".", "i", "o">>, <<"l", "o", "c", "a", "l", "h", "o", "s", "t">>}

Components == {<<"D", "e">>, <<"d", "_", "m">>, <<"a", "-">>, <<"b">>}

\* path components joined by "/" after the host
RECURSIVE JoinPath(_, _)
JoinPath(host, comps) ==
    IF comps = <<>> THEN host
    ELSE JoinPath(host \o <<"/">> \o Head(comps), Tail(comps))

Gopkgs ==
    { JoinPath(h, cs) : h \in Hosts,
                        cs \in UNION { [1..n -> Components] : n \in 1..MaxParts } }

CallNormalizeDebianProgramName ==
    /\ fn = "none"
    /\ \E str \in ProgramNames :
         /\ fn' = "normalizeDebianProgramName"
         /\ arg' = [str |-> str]
         /\ result' = NormalizeDebianProgramName(str)
    /\ UNCHANGED <<versionVars, estimateVars, makeVars, getVars>>

CallDebianNameFromGopkg ==
    /\ fn = "none"
    /\ \E path \in Gopkgs, t \in {"library", "program"},
          allowUnknownHoster \in BOOLEAN :
         /\ fn' = "debianNameFromGopkg"
         /\ arg' = [gopkg |-> path, t |-> t,
                    allowUnknownHoster |-> allowUnknownHoster]
         /\ result' = DebianNameFromGopkg(path, t, allowUnknownHoster)
    /\ UNCHANGED <<versionVars, estimateVars, makeVars, getVars>>

(***************************************************************************)
(* reformatForControl (description.go).                                    *)
(***************************************************************************)
\* strings.TrimRight(line, " ")
RECURSIVE TrimRightBlank(_)
TrimRightBlank(line) ==
    IF line = <<>> THEN <<>>
    ELSE IF line[Len(line)] = " " THEN TrimRightBlank(SubSeq(line, 1, Len(line) - 1))
    ELSE line

\* the length of the run of digits at the start of s
RECURSIVE DigitRun(_)
DigitRun(s) ==
    IF s = <<>> \/ Head(s) \notin Digits THEN 0 ELSE 1 + DigitRun(Tail(s))

\* regexp `^ \d+\. `
MatchOrderedItem(line) ==
    /\ Len(line) >= 1
    /\ line[1] = " "
    /\ LET n == DigitRun(Tail(line))
       IN  /\ n >= 1
           /\ Len(line) >= n + 3
           /\ line[n + 2] = "."
           /\ line[n + 3] = " "

\* (variant: two spaces after an ordered item as well)
OrderedNextPrefixTwo == <<" ", " ">>

\* next_prefix after an ordered item
OrderedNextPrefix == <<" ", " ", " ">>

\* next_prefix after an unordered item
UnorderedNextPrefix == <<" ", " ">>

\* the loop over the lines; st is [output, next_prefix]
RECURSIVE ReformatLines(_, _)
ReformatLines(ls, st) ==
    IF ls = <<>> THEN st.output
    ELSE LET line == TrimRightBlank(Head(ls))
             p1 == IF HasPrefix(line, <<" ", "*", " ">>)
                   THEN [prefix |-> <<>>, next |-> UnorderedNextPrefix]
                   ELSE [prefix |-> st.next_prefix, next |-> st.next_prefix]
             p2 == IF MatchOrderedItem(line)
                   THEN [prefix |-> <<>>, next |-> OrderedNextPrefix]
                   ELSE p1
             p3 == IF line = <<>>
                   THEN [line |-> <<".">>, prefix |-> <<>>, next |-> <<>>]
                   ELSE [line |-> line, prefix |-> p2.prefix, next |-> p2.next]
         IN  ReformatLines(Tail(ls),
                 [output |-> st.output \o <<" ">> \o p3.prefix \o p3.line \o <<"\n">>,
                  next_prefix |-> p3.next])

ReformatForControl(raw) ==
    ReformatLines(Split(TrimSpace(raw), "\n"),
                  [output |-> <<>>, next_prefix |-> <<>>])

\* lines a rendered description is made of
RawLines == {<<>>, <<" ", "*", " ", "a">>, <<" ", "1", "2", ".", " ", "b">>, <<"c", " ">>, <<" ", "d">>, <<" ", " ">>}

\* strings of at most MaxLines lines
RECURSIVE JoinLines(_)
JoinLines(ls) ==
    IF ls = <<>> THEN <<>>
    ELSE IF Len(ls) = 1 THEN ls[1]
    ELSE ls[1] \o <<"\n">> \o JoinLines(Tail(ls))

RawTexts ==
    { JoinLines(ls) : ls \in UNION { [1..n -> RawLines] : n \in 0..MaxLines } }

CallReformatForControl ==
    /\ fn = "none"
    /\ \E raw \in RawTexts :
         /\ fn' = "reformatForControl"
         /\ arg' = [raw |-> raw]
         /\ result' = ReformatForControl(raw)
    /\ UNCHANGED <<versionVars, estimateVars, makeVars, getVars>>

(***************************************************************************)
(* updateFlagNames (main.go).                                              *)
(***************************************************************************)
flagMap ==
    { [old |-> <<"g", "i", "t", "_", "r", "e", "v", "i", "s", "i", "o", "n">>, new |-> <<"g", "i", "t", "-", "r", "e", "v", "i", "s", "i", "o", "n">>],
      [old |-> <<"a", "l", "l", "o", "w", "_", "u", "n", "k", "n", "o", "w", "n", "_", "h", "o", "s", "t", "e", "r">>, new |-> <<"a", "l", "l", "o", "w", "-", "u", "n", "k", "n", "o", "w", "n", "-", "h", "o", "s", "t", "e", "r">>],
      [old |-> <<"f", "o", "r", "c", "e", "_", "p", "r", "e", "r", "e", "l", "e", "a", "s", "e">>, new |-> <<"f", "o", "r", "c", "e", "-", "p", "r", "e", "r", "e", "l", "e", "a", "s", "e">>],
      [old |-> <<"p", "r", "o", "g", "r", "a", "m", "_", "p", "a", "c", "k", "a", "g", "e", "_", "n", "a", "m", "e">>, new |-> <<"p", "r", "o", "g", "r", "a", "m", "-", "p", "a", "c", "k", "a", "g", "e", "-", "n", "a", "m", "e">>],
      [old |-> <<"u", "p", "s", "t", "r", "e", "a", "m", "_", "g", "i", "t", "_", "h", "i", "s", "t", "o", "r", "y">>, new |-> <<"u", "p", "s", "t", "r", "e", "a", "m", "-", "g", "i", "t", "-", "h", "i", "s", "t", "o", "r", "y">>] }

\* the loop over flagMap for one argument
UpdateFlagName(a) ==
    IF \E f \in flagMap : a = <<"-", "-">> \o f.old \/ a = <<"-">> \o f.old
    THEN <<"-", "-">> \o (CHOOSE f \in flagMap : a = <<"-", "-">> \o f.old \/ a = <<"-">> \o f.old).new
    ELSE a

UpdateFlagNames(args) == [i \in 1..Len(args) |-> UpdateFlagName(args[i])]

\* command-line arguments
ArgChoices ==
    { <<"m", "a", "k", "e">>, <<"-", "-", "g", "i", "t", "_", "r", "e", "v", "i", "s", "i", "o", "n">>, <<"-", "g", "i", "t", "_", "r", "e", "v", "i", "s", "i", "o", "n">>, <<"-", "-", "g", "i", "t", "_", "r", "e", "v", "i", "s", "i", "o", "n", "=", "1">>,
      <<"-", "f", "o", "r", "c", "e", "_", "p", "r", "e", "r", "e", "l", "e", "a", "s", "e">>, <<"-", "-", "g", "i", "t", "-", "r", "e", "v", "i", "s", "i", "o", "n">>, <<"g", "i", "t", "_", "r", "e", "v", "i", "s", "i", "o", "n">>,
      <<"-", "u", "p", "s", "t", "r", "e", "a", "m", "_", "g", "i", "t", "_", "h", "i", "s", "t", "o", "r", "y", "=", "f", "a", "l", "s", "e">> }

CommandLines == UNION { [1..n -> ArgChoices] : n \in 0..MaxArgs }

CallUpdateFlagNames ==
    /\ fn = "none"
    /\ \E args \in CommandLines :
         /\ fn' = "updateFlagNames"
         /\ arg' = [args |-> args]
         /\ result' = UpdateFlagNames(args)
    /\ UNCHANGED <<versionVars, estimateVars, makeVars, getVars>>

NextNames ==
    \/ CallNormalizeDebianProgramName
    \/ CallDebianNameFromGopkg
    \/ CallReformatForControl
    \/ CallUpdateFlagNames

InitTool ==
    /\ fn = "none"
    /\ arg = <<>>
    /\ result = <<>>

NextCheckDepends ==
    \/ CallParseGoModDependencies
    \/ CallParseDebianControlDependencies
    \/ CallExecCheckDepends

(***************************************************************************)
(* get (estimate.go) and the progress goroutine it starts (progress.go).   *)
(***************************************************************************)
Kibi == 1024

Mebi == 1024 * 1024

\* n / unit rounded to the nearest integer, ties to even
RoundHalfEven(n, unit) ==
    LET q == n \div unit
        r == n % unit
    IN  IF 2 * r > unit \/ (2 * r = unit /\ q % 2 = 1) THEN q + 1 ELSE q

\* fmt.Sprintf("%.2f", b / unit)
Sprintf2f(b, unit) ==
    LET h == RoundHalfEven(b * 100, unit)
    IN  Itoa(h \div 100) \o <<".">> \o ZeroPad(h % 100, 2)

\* humanizeBytes, for sizes below Gibi
HumanizeBytes(b) ==
    IF b > Mebi THEN Sprintf2f(b, Mebi) \o <<" ", "M", "i", "B">>
    ELSE Sprintf2f(b, Kibi) \o <<" ", "K", "i", "B">>

\* strings.Repeat(" ", n)
Spaces(n) == [i \in 1..n |-> " "]

\* the sizes filepath.Walk may add up to
Usages == {0, 1536, 2 * Mebi + 1}

NoWrite == [by |-> "none", text |-> <<>>, afterReturn |-> FALSE]

GetReturned == gpc \in {"returned", "failed"}

\* a write to standard output; the terminal keeps the last one
Write(by, text) == [by |-> by, text |-> text, afterReturn |-> GetReturned]

\* get, up to cmd.Run(): done is made, its close is deferred, the goroutine
\* is started; isatty is what the goroutine finds when it starts
GetStart ==
    /\ gpc = "idle"
    /\ gpc' = "running"
    /\ done' = "open"
    /\ ppc' = "top"
    /\ tty' \in BOOLEAN
    /\ UNCHANGED <<previous, usage, term, rounds>>
    /\ UNCHANGED <<versionVars, estimateVars, makeVars, toolVars>>

\* (variant: done is closed on the success path only)
CmdRunLeavesDoneOpen(ok) ==
    /\ gpc = "running"
    /\ gpc' = IF ok THEN "returning" ELSE "failing"
    /\ done' = IF ok THEN "closed" ELSE done
    /\ UNCHANGED <<ppc, tty, previous, usage, term, rounds>>
    /\ UNCHANGED <<versionVars, estimateVars, makeVars, toolVars>>

\* cmd.Run() ends with or without an error and the deferred close(done)
\* runs
CmdRun(ok) ==
    /\ gpc = "running"
    /\ gpc' = IF ok THEN "returning" ELSE "failing"
    /\ done' = "closed"
    /\ UNCHANGED <<ppc, tty, previous, usage, term, rounds>>
    /\ UNCHANGED <<versionVars, estimateVars, makeVars, toolVars>>

\* get returns the error of cmd.Run() to estimate
GetReturn ==
    /\ gpc \in {"returning", "failing"}
    /\ gpc' = IF gpc = "returning" THEN "returned" ELSE "failed"
    /\ UNCHANGED <<done, ppc, tty, previous, usage, term, rounds>>
    /\ UNCHANGED <<versionVars, estimateVars, makeVars, toolVars>>

\* estimate goes on after get: it prints its report or its error
EstimateOutput ==
    /\ GetReturned
    /\ term.by # "main"
    /\ term' = Write("main", IF gpc = "failed" THEN <<"g", "o", " ", "g", "e", "t", ":", " ", "e", "r", "r", "o", "r">> ELSE <<"r">>)
    /\ UNCHANGED <<gpc, done, ppc, tty, previous, usage, rounds>>
    /\ UNCHANGED <<versionVars, estimateVars, makeVars, toolVars>>

\* progressSize, top of the loop: the directory is walked on a terminal
ProgressWalk ==
    /\ ppc = "top"
    /\ IF tty
       THEN /\ usage' \in Usages
            /\ ppc' = "clear"
       ELSE /\ usage' = usage
            /\ ppc' = "select"
    /\ UNCHANGED <<gpc, done, tty, previous, term, rounds>>
    /\ UNCHANGED <<versionVars, estimateVars, makeVars, toolVars>>

\* fmt.Printf("\r%s", strings.Repeat(" ", previous))
ProgressClear ==
    /\ ppc = "clear"
    /\ term' = Write("progress", <<"\r">> \o Spaces(previous))
    /\ ppc' = "print"
    /\ UNCHANGED <<gpc, done, tty, previous, usage, rounds>>
    /\ UNCHANGED <<versionVars, estimateVars, makeVars, toolVars>>

\* previous, _ = fmt.Printf("\r%s: %s", prefix, humanizeBytes(usage))
ProgressPrint ==
    /\ ppc = "print"
    /\ LET text == <<"\r">> \o <<"g", "o", " ", "g", "e", "t", ":", " ">> \o HumanizeBytes(usage)
       IN  /\ term' = Write("progress", text)
           /\ previous' = Len(text)
    /\ ppc' = "select"
    /\ UNCHANGED <<gpc, done, tty, usage, rounds>>
    /\ UNCHANGED <<versionVars, estimateVars, makeVars, toolVars>>

\* case <-done: fmt.Printf("\r"); return
ReceiveDone ==
    /\ ppc = "select"
    /\ done = "closed"
    /\ term' = Write("progress", <<"\r">>)
    /\ ppc' = "returned"
    /\ UNCHANGED <<gpc, done, tty, previous, usage, rounds>>
    /\ UNCHANGED <<versionVars, estimateVars, makeVars, toolVars>>

\* case <-time.After(250 * time.Millisecond): the timer of this round
\* fires before done is closed and the loop goes round; a closed done is
\* ready as soon as the select is entered, 250 ms before the timer. The
\* rounds are counted up to MaxRounds.
TimeAfter ==
    /\ ppc = "select"
    /\ done = "open"
    /\ rounds < MaxRounds
    /\ rounds' = rounds + 1
    /\ ppc' = "top"
    /\ UNCHANGED <<gpc, done, tty, previous, usage, term>>
    /\ UNCHANGED <<versionVars, estimateVars, makeVars, toolVars>>

InitGet ==
    /\ gpc = "idle"
    /\ done = "none"
    /\ ppc = "none"
    /\ tty = FALSE
    /\ previous = 0
    /\ usage = 0
    /\ term = NoWrite
    /\ rounds = 0

NextGet ==
    \/ GetStart
    \/ \E ok \in BOOLEAN : CmdRun(ok)
    \/ GetReturn
    \/ EstimateOutput
    \/ ProgressWalk
    \/ ProgressClear
    \/ ProgressPrint
    \/ ReceiveDone
    \/ TimeAfter

\* the goroutine is scheduled whenever it can take a step
ProgressStep == ProgressWalk \/ ProgressClear \/ ProgressPrint \/ ReceiveDone

vars == <<ncommits, headTime, tags, u, ret, vpc, calls,
          epc, eret, golangBinaries, modGraph, children, lines, seen, rrseen,
          needed, stack, stdout, enumerated,
          mpc, fpc, makeBinaries, egErr, repoDeps, depNext, debdependencies,
          warned, writtenAt, overlap,
          fn, arg, result,
          gpc, done, ppc, tty, previous, usage, term, rounds>>

Init == InitVersion /\ InitEstimate /\ InitMake /\ InitTool /\ InitGet

SpecVersion == Init /\ [][NextVersion]_vars

SpecRelease == Init /\ [][NextRelease]_vars

SpecFaults == Init /\ [][NextFaults]_vars

SpecEstimate == Init /\ [][NextEstimate]_vars

SpecMake == Init /\ [][NextMake]_vars

SpecCheckDepends == Init /\ [][NextCheckDepends]_vars

SpecNames == Init /\ [][NextNames]_vars

SpecGet == Init /\ [][NextGet]_vars

\* a runnable goroutine is eventually scheduled
SpecGetFair == SpecGet /\ WF_vars(ProgressStep)

(***************************************************************************)
(* Properties of the version resolver.                                     *)
(*                                                                         *)
(* The expected strings are written out per input, independently of the    *)
(* operators that model the code.                                          *)
(***************************************************************************)
ExpectedDate(ct) ==
    CASE ct = 1429528953 -> <<"2", "0", "1", "5", "0", "4", "2", "0">>
      [] ct = 1430956799 -> <<"2", "0", "1", "5", "0", "5", "0", "6">>
      [] ct = 1456704000 -> <<"2", "0", "1", "6", "0", "2", "2", "9">>

\* the tag without its leading non-numeric characters
ExpectedStripped(tag) ==
    CASE tag = TagV78 -> <<"7", ".", "8">>
      [] tag = TagRc -> <<"1", ".", "0", "-", "r", "c", "1">>
      [] tag = TagFoo -> <<>>
      [] tag = TagSub -> <<"2">>
      [] tag = TagV10 -> <<"1", ".", "0">>

\* the tag with its prerelease hyphen mapped to a tilde
ExpectedMangled(tag) ==
    CASE tag = TagRc -> <<"1", ".", "0", "~", "r", "c", "1">>
      [] OTHER -> ExpectedStripped(tag)

\* the call just returned, all git commands having run undisturbed
Returned == vpc = "returned" /\ ret.fault = "none"

HasLatestTag == ncommits > 0 /\ DescribeCandidates(Repo, TRUE) # {}

LatestTag == tags[DescribedTag(Repo, TRUE)]

CommitsAhead == ncommits - LatestTag.at

SnapshotPrefixOf(tag) ==
    ExpectedStripped(tag) \o <<"+", "g", "i", "t">> \o ExpectedDate(headTime) \o <<".">>

C3_PrereleaseHyphenToTilde ==
    (Returned /\ ~ret.force /\ HasLatestTag /\ LatestTag.name = TagRc)
        => /\ ~ret.err
           /\ ret.version = ExpectedMangled(LatestTag.name)

\* C10: a repository with no tags at all resolves to a version starting with
\* 0.0~git{YYYYMMDD of HEAD's committer date}, whatever upstream struct is
\* passed in (fresh or used by an earlier call).
C10_NoTagsIsZeroSnapshot ==
    (Returned /\ ncommits > 0 /\ tags = <<>>)
        => /\ ~ret.err
           /\ HasPrefix(ret.version,
                        <<"0", ".", "0", "~", "g", "i", "t">> \o ExpectedDate(headTime))

\* the step is a pkgVersionFromGit call whose git commands ran undisturbed,
\* made after an earlier such call
CallAfterCall ==
    /\ calls >= 1
    /\ calls' = calls + 1
    /\ ret.fault = "none"
    /\ ret'.fault = "none"

\* C11: two calls in a row on the same unchanged repository, with the same
\* forcePrerelease and the same upstream struct, return the same version.
C11_Idempotent ==
    [][(CallAfterCall /\ vpc = "returned" /\ ret'.force = ret.force)
          => (ret'.version = ret.version /\ ret'.err = ret.err)]_vars

(***************************************************************************)
(* dpkg's comparison of version strings (verrevcmp of dpkg, lib/dpkg/      *)
(* version.c): -1, 0 or 1.                                                 *)
(***************************************************************************)
Alphabet ==
    <<"a", "b", "c", "d", "e", "f", "g", "h", "i", "j", "k", "l", "m",
      "n", "o", "p", "q", "r", "s", "t", "u", "v", "w", "x", "y", "z">>

\* order() of dpkg on the first character of s, 0 at the end of the string
DpkgOrder(s) ==
    IF s = <<>> THEN 0
    ELSE LET c == Head(s)
         IN  IF c \in Digits THEN 0
             ELSE IF c = "~" THEN -1
             ELSE IF \E i \in 1..26 : Alphabet[i] = c
             THEN 96 + (CHOOSE i \in 1..26 : Alphabet[i] = c)
             ELSE 256 + (CASE c = "+" -> 43 [] c = "-" -> 45 [] c = "." -> 46
                           [] c = "/" -> 47 [] OTHER -> 63)

RECURSIVE PrefixLen(_, _)
PrefixLen(s, S) ==
    IF s = <<>> \/ Head(s) \notin S THEN 0 ELSE 1 + PrefixLen(Tail(s), S)

RECURSIVE DpkgCompare(_, _)
DpkgCompare(a, b) ==
    IF a = <<>> /\ b = <<>> THEN 0
    ELSE IF \/ (a # <<>> /\ Head(a) \notin Digits)
            \/ (b # <<>> /\ Head(b) \notin Digits)
    THEN IF DpkgOrder(a) < DpkgOrder(b) THEN -1
         ELSE IF DpkgOrder(a) > DpkgOrder(b) THEN 1
         ELSE DpkgCompare(Tail(a), Tail(b))
    ELSE LET da == PrefixLen(a, Digits)
             db == PrefixLen(b, Digits)
             na == Atoi(SubSeq(a, 1, da))
             nb == Atoi(SubSeq(b, 1, db))
         IN  IF na < nb THEN -1
             ELSE IF na > nb THEN 1
             ELSE DpkgCompare(SubSeq(a, da + 1, Len(a)), SubSeq(b, db + 1, Len(b)))

DpkgLess(a, b) == DpkgCompare(a, b) = -1

\* the place of a tag among the releases of the upstream, 0 for a tag that
\* is not a release
ReleaseRank(tag) ==
    CASE tag = TagRc -> 1
      [] tag = TagV10 -> 2
      [] tag = TagV78 -> 3
      [] OTHER -> 0

\* C12: along one history the resolved versions are strictly ordered under
\* dpkg's comparison: the version at a tag T before a snapshot taken after T,
\* both before the version at a later release T', and the snapshot of an
\* untagged repository before every tagged version.
C12_VersionsFollowHistory ==
    [][(CallAfterCall /\ ~ret.err /\ ~ret'.err /\ ReleaseRank(ret'.tag) > 0) =>
          /\ (~ret.force /\ ret'.force /\ ret'.tag = ret.tag /\ ret'.n >= ret.n)
                => DpkgLess(ret.version, ret'.version)
          /\ (~ret'.force /\ ReleaseRank(ret.tag) > 0
                /\ ReleaseRank(ret.tag) < ReleaseRank(ret'.tag))
                => DpkgLess(ret.version, ret'.version)
          /\ (~ret'.force /\ ret.tag = <<>> /\ ret.fresh)
                => DpkgLess(ret.version, ret'.version)]_vars

\* C13: each further commit after a tag gives a snapshot version different
\* from and strictly greater than the snapshot version of the commit before
\* it, also when the two commits have the same committer date.
C13_SnapshotsIncrease ==
    [][(/\ CallAfterCall /\ ~ret.err /\ ~ret'.err
        /\ ret.force /\ ret'.force
        /\ ReleaseRank(ret.tag) > 0 /\ ret'.tag = ret.tag
        /\ ret'.n = ret.n + 1
        /\ ret.ct <= ret'.ct)
          => /\ ret'.version # ret.version
             /\ DpkgLess(ret.version, ret'.version)]_vars

\* a Debian upstream version: starts with a digit and is made of
\* alphanumerics and . + - ~
ValidUpstreamVersion(v) ==
    /\ v # <<>>
    /\ Head(v) \in Digits
    /\ \A i \in 1..Len(v) :
          \/ v[i] \in Digits
          \/ v[i] \in {".", "+", "-", "~"}
          \/ \E k \in 1..26 : Alphabet[k] = v[i]

\* C14: every version returned without an error is a valid Debian upstream
\* version (non-empty, starting with a digit), whatever the tags are named.
C14_ReturnsValidVersion ==
    (Returned /\ ~ret.err) => ValidUpstreamVersion(ret.version)

\* git's abbreviated name of HEAD
ExpectedHash ==
    CASE ncommits = 1 -> <<"9", "f", "1", "0">>
      [] ncommits = 2 -> <<"1", "d", "2", "4">>
      [] ncommits = 3 -> <<"c", "0", "e", "7">>
      [] ncommits = 4 -> <<"4", "b", "4">>

\* C15: with forcePrerelease set and a latest tag T, the call returns the
\* snapshot {T stripped}+git{YYYYMMDD}.{hash of HEAD}, also when HEAD is at
\* T, and never the bare tag version.
C15_ForcedIsSnapshot ==
    (Returned /\ ret.force /\ HasLatestTag)
        => /\ ~ret.err
           /\ ret.version = SnapshotPrefixOf(LatestTag.name) \o ExpectedHash
           /\ ret.version # ExpectedStripped(LatestTag.name)

C15_Witness ==
    /\ Returned /\ ret.force /\ HasLatestTag /\ CommitsAhead = 0
    /\ LatestTag.name = TagV78
    /\ ~ret.fresh
    /\ ret.version = <<"7", ".", "8", "+", "g", "i", "t", "2", "0", "1", "5",
                       "0", "4", "2", "0", ".", "9", "f", "1", "0">>

(***************************************************************************)
(* Which git commands the call just made has invoked, and which of them    *)
(* exited with a failure, from the repository and the injected failure.    *)
(***************************************************************************)
GitCommands == {"describe", "revlist", "log", "describelong", "revparse"}

AnyTag == ncommits > 0 /\ DescribeCandidates(Repo, FALSE) # {}

HasFailed(cmd) ==
    \/ ret.fault = cmd
    \/ cmd = "describe" /\ ~HasLatestTag
    \/ cmd = "log" /\ ncommits = 0
    \/ cmd = "describelong" /\ ~AnyTag
    \/ cmd = "revparse" /\ ncommits = 0

WasInvoked(cmd) ==
    LET snapshot == \/ HasFailed("describe")
                    \/ (~HasFailed("revlist") /\ ret.force)
    IN  CASE cmd = "describe" -> TRUE
          [] cmd = "revlist" -> ~HasFailed("describe")
          [] cmd = "log" -> snapshot
          [] cmd = "describelong" -> snapshot /\ ~HasFailed("log")
          [] cmd = "revparse" ->
                snapshot /\ ~HasFailed("log") /\ HasFailed("describelong")

\* C16 (as stated): if any git command the call invokes exits with a
\* failure, the call returns an error.
C16_EveryFailureSurfaced ==
    vpc = "returned" =>
        \A cmd \in GitCommands : (WasInvoked(cmd) /\ HasFailed(cmd)) => ret.err

\* C16 (amended): the call returns an error exactly when git rev-list, git
\* log or git rev-parse is invoked and fails.  A failing git describe
\* --abbrev=0 is taken as "no tag" and the call goes on to the snapshot; a
\* failing git describe --long is replaced by git rev-parse --short HEAD,
\* whose output then ends the version.
C16_SurfacedFailures ==
    vpc = "returned" =>
        /\ ret.err <=> \E cmd \in {"revlist", "log", "revparse"} :
                          WasInvoked(cmd) /\ HasFailed(cmd)
        /\ (HasFailed("describe") /\ ~ret.err /\ ret.fresh)
              => HasPrefix(ret.version, <<"0", ".", "0", "~", "g", "i", "t">>
                                          \o ExpectedDate(headTime))
        /\ (WasInvoked("describelong") /\ HasFailed("describelong") /\ ~ret.err)
              => /\ WasInvoked("revparse")
                 /\ SubSeq(ret.version, Len(ret.version) - Len(ExpectedHash) + 1,
                           Len(ret.version)) = ExpectedHash

C16_Witness ==
    /\ vpc = "returned"
    /\ ret.fault = "describelong"
    /\ HasLatestTag /\ LatestTag.name = TagV78
    /\ ret.force
    /\ ~ret.err
    /\ WasInvoked("revparse")

\* C27: after every successful call, u.hasRelease is true exactly when the
\* call found a tag, and u.isRelease is true exactly when the version it
\* returned is the bare tag version; also with a reused upstream struct.
C27_FlagsTrackTheCall ==
    (Returned /\ ~ret.err)
        => /\ u.hasRelease <=> HasLatestTag
           /\ u.isRelease <=>
                (HasLatestTag /\ ret.version = ExpectedStripped(LatestTag.name))

(***************************************************************************)
(* Properties of the dependency walk.                                      *)
(*                                                                         *)
(* What is expected of each module name is written out per name,           *)
(* independently of the operators that model the code.                     *)
(***************************************************************************)
\* the repository root of the modules of the model
ExpectedRoot(mod) ==
    CASE mod = ModBSub -> ModB
      [] mod = ModBV2 -> ModB
      [] mod = ModBV3 -> ModB
      [] OTHER -> mod

\* the other major versions to try, in order
ExpectedAlternates(mod) ==
    CASE mod = ModBV3 -> <<ModBV2, ModB>>
      [] mod = ModBV2 -> <<ModB>>
      [] OTHER -> <<>>

HasPackagedAlternate(mod) ==
    \E i \in 1..Len(ExpectedAlternates(mod)) :
        ExpectedAlternates(mod)[i] \in golangBinaries

\* module name without "@version"
ExpectedMod(name) ==
    IF name = ImportPath THEN ImportPath ELSE SubSeq(name, 1, Len(name) - 2)

Nodes == DOMAIN children

NeededLinesOf(mod) ==
    {i \in 1..Len(lines) : lines[i].kind = "needed" /\ lines[i].mod = mod}

RepeatLinesOf(mod) ==
    {i \in 1..Len(lines) : lines[i].kind = "repeat" /\ lines[i].mod = mod}

TimesEnumerated(n) == IF n \in DOMAIN enumerated THEN enumerated[n] ELSE 0

\* nodes reachable from S along edges that leave nodes whose module is not
\* in blocked
RECURSIVE ReachAvoiding(_, _)
ReachAvoiding(S, blocked) ==
    LET next == S \cup UNION {
                    {children[n][i] : i \in 1..Len(children[n])} :
                        n \in {k \in S : ExpectedMod(k) \notin blocked} }
    IN  IF next = S THEN S ELSE ReachAvoiding(next, blocked)

\* some node occurs twice among the active calls of visit
NodeTwiceOnStack ==
    \E i, j \in 1..Len(stack) : i < j /\ stack[i].node = stack[j].node

\* the stack is only ever exhausted by a recursion that repeats a node
OverflowIsEndlessRecursion == epc = "overflow" => NodeTwiceOnStack

\* C4: the dependency walk terminates on every finite edge list, cyclic
\* ones included: the recursion of visit never goes on until the stack is
\* exhausted.
C4_WalkTerminates == epc # "overflow"

\* C5: the walk does not descend again into an already needed module, so
\* the children of every node are enumerated at most once in the whole walk.
C5_ChildrenEnumeratedOnce ==
    \A n \in Nodes : children[n] # <<>> => TimesEnumerated(n) <= 1

\* C6 (as stated): every module reachable from the root that is not in the
\* packaged set, and not reachable only through packaged modules, has
\* exactly one needed line when the walk is over (modules differing only in
\* @version being one module).
C6_ReachableNeededOnce ==
    epc = "done" =>
        \A n \in ReachAvoiding({ImportPath}, golangBinaries) :
            ExpectedMod(n) \notin golangBinaries
                => Cardinality(NeededLinesOf(ExpectedMod(n))) = 1

\* a module the walk treats as satisfied
ExpectedSatisfied(mod) ==
    \/ mod \in {ModGo, ModToolchain}
    \/ mod \in golangBinaries
    \/ (ExpectedRoot(mod) \in golangBinaries /\ ~HasPackagedAlternate(mod))

SatisfiedMods == {ExpectedMod(n) : n \in {k \in Nodes : ExpectedSatisfied(ExpectedMod(k))}}

\* C6 (amended): every module the walk has visited that is not go or
\* toolchain, not in the packaged set and not matched through its repository
\* root has exactly one needed line, and no module ever has more than one
\* (modules differing only in @version being one module); when the walk is
\* over this covers every module reachable from the root through such
\* modules.
C6_UnsatisfiedNeededOnce ==
    /\ \A n \in Nodes : Cardinality(NeededLinesOf(ExpectedMod(n))) <= 1
    /\ \A n \in Nodes :
          (ExpectedMod(n) \in seen /\ ~ExpectedSatisfied(ExpectedMod(n)))
              => Cardinality(NeededLinesOf(ExpectedMod(n))) = 1
    /\ epc = "done" =>
          \A n \in ReachAvoiding({ImportPath}, SatisfiedMods) :
              ~ExpectedSatisfied(ExpectedMod(n))
                  => Cardinality(NeededLinesOf(ExpectedMod(n))) = 1

C6_Witness ==
    /\ epc = "done"
    /\ golangBinaries = {ModB, ModBV3}
    /\ At(ModA, <<"2">>) \in Nodes
    /\ At(ModA, <<"1">>) \in Nodes
    /\ Cardinality(NeededLinesOf(ModA)) = 1
    /\ Cardinality(NeededLinesOf(ModBV2)) = 1
    /\ RepeatLinesOf(ModA) # {}
    /\ ModGo \in seen
    /\ NeededLinesOf(ModGo) = {}

\* the modules that have a child of module mod and whose own children the
\* walk has enumerated
VisitedParentsOf(mod) ==
    {ExpectedMod(p) : p \in {k \in Nodes :
        /\ TimesEnumerated(k) >= 1
        /\ \E i \in 1..Len(children[k]) : ExpectedMod(children[k][i]) = mod}}

ParentsOf(mod) ==
    {ExpectedMod(p) : p \in {k \in Nodes :
        \E i \in 1..Len(children[k]) : ExpectedMod(children[k][i]) = mod}}

\* C7: after the walk, the highest count on a module's repeat lines is the
\* number of its distinct visited parents, and a module with a single
\* parent has no repeat line.
C7_CountIsDistinctParents ==
    epc = "done" =>
        \A n \in Nodes :
            LET mod == ExpectedMod(n)
            IN  /\ RepeatLinesOf(mod) # {}
                      => \A i \in RepeatLinesOf(mod) :
                             lines[i].count <= Cardinality(VisitedParentsOf(mod))
                /\ Cardinality(ParentsOf(mod)) = 1 => RepeatLinesOf(mod) = {}

\* C8: a module whose name is in the packaged set has no line and its
\* children are never enumerated; every module with a line is reachable
\* from the root along a path that does not pass through a packaged module.
C8_PackagedPrunesSubtree ==
    /\ \A i \in 1..Len(lines) : lines[i].mod \notin golangBinaries
    /\ \A n \in Nodes : ExpectedMod(n) \in golangBinaries => TimesEnumerated(n) = 0
    /\ \A i \in 1..Len(lines) :
          \E n \in ReachAvoiding({ImportPath}, golangBinaries) :
              ExpectedMod(n) = lines[i].mod
    /\ \A i \in 1..Len(stdout) : stdout[i].mod \notin golangBinaries

C8_Witness ==
    /\ epc = "done"
    /\ golangBinaries = {ModB, ModBV3}
    /\ ModBV3 \in seen
    /\ At(ModBV3, <<"1">>) \in Nodes
    /\ children[At(ModBV3, <<"1">>)] = <<At(ModBSub, <<"1">>)>>
    /\ ModBSub \notin seen
    /\ Len(stdout) >= 2

\* C9 (as stated): a module that is not in the packaged set but has an
\* alternate name in it (another major version, or its repository root) is
\* treated as satisfied: it gets no needed line and its children are not
\* enumerated.
C9_AlternateNameSatisfies ==
    \A n \in Nodes :
        LET mod == ExpectedMod(n)
        IN  (/\ mod \notin golangBinaries
             /\ (HasPackagedAlternate(mod) \/ ExpectedRoot(mod) \in golangBinaries))
                => /\ NeededLinesOf(mod) = {}
                   /\ TimesEnumerated(n) = 0

\* C9 (amended): a module that is not in the packaged set, whose repository
\* root is and none of whose other major versions is, is treated as
\* satisfied: no line, children not enumerated.  A visited module that is
\* not in the packaged set and one of whose other major versions is gets a
\* needed line naming the first such version, and its children are
\* enumerated.
C9_OnlyRepoRootSatisfies ==
    \A n \in Nodes :
        LET mod == ExpectedMod(n)
        IN  /\ (/\ mod \notin golangBinaries
                /\ ExpectedRoot(mod) \in golangBinaries
                /\ ~HasPackagedAlternate(mod))
                   => /\ NeededLinesOf(mod) = {}
                      /\ RepeatLinesOf(mod) = {}
                      /\ TimesEnumerated(n) = 0
            /\ (/\ mod \notin golangBinaries
                /\ mod \in seen
                /\ HasPackagedAlternate(mod))
                   => /\ \E i \in NeededLinesOf(mod) :
                            /\ lines[i].inDebian \in golangBinaries
                            /\ \E k \in 1..Len(ExpectedAlternates(mod)) :
                                  /\ ExpectedAlternates(mod)[k] = lines[i].inDebian
                                  /\ \A j \in 1..(k - 1) :
                                        ExpectedAlternates(mod)[j] \notin golangBinaries
                      /\ epc = "done" => TimesEnumerated(n) >= 1

C9_Witness ==
    /\ epc = "done"
    /\ golangBinaries = {ModB, ModBV3}
    /\ ModBSub \in seen
    /\ At(ModBSub, <<"1">>) \in Nodes
    /\ children[At(ModBSub, <<"1">>)] # <<>>
    /\ NeededLinesOf(ModBSub) = {}
    /\ ModBV2 \in seen
    /\ NeededLinesOf(ModBV2) # {}

\* C17: if go mod graph fails, estimate returns an error and prints no
\* line: no graph is built and nothing is walked, not even in part.
C17_GraphFailureAborts ==
    /\ epc = "graphfailed" =>
          /\ eret = "error"
          /\ modGraph = <<>>
          /\ DOMAIN children = {ImportPath}
          /\ children[ImportPath] = <<>>
          /\ seen = {} /\ needed = <<>> /\ enumerated = <<>> /\ stack = <<>>
          /\ lines = <<>>
          /\ stdout = <<>>
    /\ eret = "error" => stdout = <<>>

C17_Witness == epc = "graphfailed" /\ eret = "error" /\ golangBinaries = {}

\* C18: if getGolangBinaries fails during estimate, estimate returns an
\* error (and not success without a report).
C18_BinariesFailureSurfaced == epc = "binariesfailed" => eret = "error"

(***************************************************************************)
(* Order and indentation of the report.                                    *)
(***************************************************************************)
\* the line under which line i is nested: the last one before it that is
\* less indented (0 when there is none)
ParentLine(i) ==
    LET above == {j \in 1..(i - 1) : lines[j].indent < lines[i].indent}
    IN  IF above = {} THEN 0 ELSE CHOOSE j \in above : \A k \in above : k <= j

\* some node of module pm lists a child of module m1 and, later in its
\* list, a child of module m2
ListedInOrder(pm, m1, m2) ==
    \E n \in Nodes :
        /\ ExpectedMod(n) = pm
        /\ \E s, t \in 1..Len(children[n]) :
              /\ s < t
              /\ ExpectedMod(children[n][s]) = m1
              /\ ExpectedMod(children[n][t]) = m2

ListedUnder(pm, m) ==
    \E n \in Nodes :
        /\ ExpectedMod(n) = pm
        /\ \E s \in 1..Len(children[n]) : ExpectedMod(children[n][s]) = m

\* root -> A, root -> B, A -> C, B -> C with A = a, B = b/v3, C = b/s
Diamond ==
    << <<"r", "@", "1", " ", "a", "@", "1">>,
       <<"r", "@", "1", " ", "b", "/", "v", "3", "@", "1">>,
       <<"a", "@", "1", " ", "b", "/", "s", "@", "1">>,
       <<"b", "/", "v", "3", "@", "1", " ", "b", "/", "s", "@", "1">> >>

DiamondReport ==
    << <<"r">>,
       <<" ", " ", "a">>,
       <<" ", " ", " ", " ", "b", "ESC", "[", "9", "0", "m", "/", "s",
         "ESC", "[", "0", "m">>,
       <<" ", " ", "ESC", "[", "9", "0", "m", "b", "/", "v", "3",
         "ESC", "[", "0", "m">>,
       <<" ", " ", " ", " ", "ESC", "[", "9", "0", "m", "b", "/", "s", " ",
         "(", "2", ")", "ESC", "[", "0", "m">> >>

\* C20: the lines come in depth-first pre-order, the children of a node in
\* the order of the edge list, each line indented by two spaces per depth
\* (the root's own line, at depth 0, comes first); for root -> A, root -> B,
\* A -> C, B -> C and nothing packaged the dependency lines are A, C one
\* level under A, B, and C again as a repeat line with count 2.
C20_PreOrderReport ==
    /\ \A i \in 1..Len(lines) :
          IF i = 1
          THEN lines[i].indent = 0 /\ lines[i].mod = ImportPath
          ELSE /\ ParentLine(i) # 0
               /\ lines[ParentLine(i)].indent = lines[i].indent - 1
               /\ ListedUnder(lines[ParentLine(i)].mod, lines[i].mod)
    /\ \A i, j \in 1..Len(lines) :
          (i < j /\ ParentLine(i) # 0 /\ ParentLine(i) = ParentLine(j)
                 /\ lines[i].indent = lines[j].indent)
              => ListedInOrder(lines[ParentLine(i)].mod, lines[i].mod, lines[j].mod)
    /\ epc = "done" =>
          /\ Len(stdout) = Len(lines)
          /\ \A i \in 1..Len(stdout) :
                /\ stdout[i].mod = lines[i].mod
                /\ PrefixLen(stdout[i].text, {" "}) = 2 * (stdout[i].indent)
    /\ (epc = "done" /\ modGraph = Diamond /\ golangBinaries = {})
          => [i \in 1..Len(stdout) |-> stdout[i].text] = DiamondReport

C20_Witness ==
    /\ epc = "done"
    /\ modGraph = Diamond
    /\ golangBinaries = {}
    /\ Len(stdout) = 5
    /\ stdout[5].kind = "repeat" /\ stdout[5].count = 2

(***************************************************************************)
(* Properties of execMake.                                                 *)
(***************************************************************************)
\* C19: in execMake the already-packaged list is fetched by a task that
\* runs concurrently with the source download, and every read of the list
\* by the main flow comes after the task has finished (eg.Wait): no read of
\* golangBinaries overlaps or precedes its write.
C19_ReadsAfterJoin ==
    /\ ~overlap
    /\ mpc \in {"check", "deps", "done"} => fpc = "done"
    /\ (mpc = "done" /\ makeBinaries # {}) =>
          \A i \in 1..Len(debdependencies) : ~debdependencies[i].heuristic

C19_Witness ==
    /\ mpc = "done"
    /\ fpc = "done"
    /\ writtenAt = "download"
    /\ warned
    /\ repoDeps = <<ModA, ModBSub>>
    /\ debdependencies = <<[heuristic |-> FALSE, of |-> "golang-a-dev"]>>

(***************************************************************************)
(* Properties of check-depends.                                            *)
(***************************************************************************)
\* the repository root of each go.mod path that resolves, written out
C21_RootOf(path) ==
    CASE path = ModA -> <<"a">>
      [] path = ModBSub -> <<"b">>
      [] path = ModBV2 -> <<"b">>

C21_PackageOf(root, goBinaries) ==
    IF \E e \in goBinaries : e.path = root
    THEN (CHOOSE e \in goBinaries : e.path = root).bin
    ELSE <<>>

C21_Resolvable(require) ==
    \A i \in 1..Len(require) : require[i].path # ModUnknown

\* C21: parseGoModDependencies returns one entry for every requirement of
\* go.mod, direct or indirect, in file order, with importPath the
\* repository root of the path and packageName the Debian package mapped
\* to that root, or empty.
C21_EveryRequirementListed ==
    (fn = "parseGoModDependencies" /\ ~result.err
        /\ C21_Resolvable(arg.require))
    => result.deps =
         [i \in 1..Len(arg.require) |->
            [importPath |-> C21_RootOf(arg.require[i].path),
             packageName |-> C21_PackageOf(C21_RootOf(arg.require[i].path),
                                           arg.goBinaries)]]

\* the package name each possibility is listed under, <<>> when left out
C22_KeptAs(name) ==
    CASE name = PkgA -> PkgA
      [] name = <<"\n", "b", "-", "d", "e", "v">> -> PkgB
      [] OTHER -> <<>>

RECURSIVE C22_Expected(_)
C22_Expected(names) ==
    IF names = <<>> THEN <<>>
    ELSE IF C22_KeptAs(Head(names)) = <<>> THEN C22_Expected(Tail(names))
    ELSE <<[importPath |-> <<>>, packageName |-> C22_KeptAs(Head(names))]>>
         \o C22_Expected(Tail(names))

\* C22: parseDebianControlDependencies returns exactly the Build-Depends
\* entries whose package name ends in -dev, in the order listed and with an
\* empty importPath.
C22_OnlyDevBuildDepends ==
    (fn = "parseDebianControlDependencies" /\ ~result.err)
    => result.deps = C22_Expected(arg.names)

\* a -dev package between two entries that are left out
C22_Witness ==
    /\ fn = "parseDebianControlDependencies"
    /\ ~result.err
    /\ Len(arg.names) = MaxBuildDeps
    /\ arg.names[1] = <<"d", "h">>
    /\ arg.names[MaxBuildDeps] = <<"\n", "b", "-", "d", "e", "v">>
    /\ result.deps # <<>>
    /\ result.deps[Len(result.deps)].packageName = PkgB

C28_Printed(text, dep) ==
    \E i \in 1..Len(result.stdout) :
        /\ result.stdout[i].text = text
        /\ result.stdout[i].importPath = dep.importPath
        /\ result.stdout[i].packageName = dep.packageName

C28_PrintedAny(texts) ==
    \E i \in 1..Len(result.stdout) : result.stdout[i].text \in texts

\* C28: execCheckDepends prints "in sync" only when it printed no NEW line
\* (packaged or not yet packaged) and no RM line; it prints a NEW line for
\* every go.mod dependency whose package is missing from d/control and an
\* RM line for every -dev build dependency no go.mod dependency maps to.
C28_InSyncOnlyWithoutChanges ==
    (fn = "execCheckDepends" /\ ~result.fatal)
    => /\ C28_PrintedAny({"go.mod and d/control are in sync"})
          => ~C28_PrintedAny({"NEW dependency",
                              "NEW dependency is NOT yet packaged in Debian",
                              "RM dependency"})
       /\ \A i \in 1..Len(result.goModDepds) :
            LET dep == result.goModDepds[i]
            IN  (\A j \in 1..Len(result.packageDeps) :
                    result.packageDeps[j].packageName # dep.packageName)
                => \/ C28_Printed("NEW dependency", dep)
                   \/ C28_Printed("NEW dependency is NOT yet packaged in Debian", dep)
       /\ \A j \in 1..Len(result.packageDeps) :
            LET dep == result.packageDeps[j]
            IN  (\A i \in 1..Len(result.goModDepds) :
                    result.goModDepds[i].packageName # dep.packageName)
                => C28_Printed("RM dependency", dep)


(***************************************************************************)
(* Properties of the Debian names, the description and the flag names.     *)
(***************************************************************************)
C23_IsValidPackageName(name) ==
    /\ \A i \in 1..Len(name) :
          IsLower(name[i]) \/ name[i] \in Digits \/ name[i] \in {"+", "-", "."}
    /\ Len(name) >= 2
    /\ IsLower(name[1]) \/ name[1] \in Digits

\* C23: normalizeDebianProgramName returns the placeholder TODO or a valid
\* Debian package name: lower-case letters, digits, '+', '-' and '.' only,
\* at least two characters, starting with an alphanumeric character.
C23_ValidNameOrTodo ==
    fn = "normalizeDebianProgramName"
    => (result = <<"T", "O", "D", "O">> \/ C23_IsValidPackageName(result))

C24_ShortName(host) ==
    CASE host = <<"g", "i", "t", "h", "u", "b", ".", "c", "o", "m">> -> <<"g", "i", "t", "h", "u", "b">>
      [] host = <<"g", "o", "p", "k", "g", ".", "i", "n">> -> <<"g", "o", "p", "k", "g">>
      [] host = <<"g", "o", "4", ".", "o", "r", "g">> -> <<"g", "o", "4">>

C24_Known(path) == Split(path, "/")[1] \in {<<"g", "i", "t", "h", "u", "b", ".", "c", "o", "m">>, <<"g", "o", "p", "k", "g", ".", "i", "n">>, <<"g", "o", "4", ".", "o", "r", "g">>}

\* "-" and the component, lower-cased and with '_' replaced, for each one
RECURSIVE C24_Joined(_)
C24_Joined(comps) ==
    IF comps = <<>> THEN <<>>
    ELSE <<"-">> \o ToLower(ReplaceUnderscore(Head(comps)))
         \o C24_Joined(Tail(comps))

C24_LibraryName(path) ==
    LET parts == Split(path, "/")
    IN  <<"g", "o", "l", "a", "n", "g", "-">> \o C24_ShortName(parts[1]) \o C24_Joined(Tail(parts))

C24_ProgramName(path) ==
    LET parts == Split(path, "/")
    IN  NormalizeDebianProgramName(parts[Len(parts)])

\* C24 as stated: on a known hoster the library name is golang- + the
\* hoster's short name + the remaining components joined by '-', lower-cased
\* and with '_' replaced by '-'; the program name is the normalized last
\* component.
C24_NameFromGopkg ==
    (fn = "debianNameFromGopkg" /\ C24_Known(arg.gopkg))
    => /\ result.exit = "ok"
       /\ arg.t = "library" => result.out = C24_LibraryName(arg.gopkg)
       /\ arg.t = "program" => result.out = C24_ProgramName(arg.gopkg)

\* C24, amended: the library name is that string with the '-' at its ends
\* removed.
C24_NameFromGopkgTrimmed ==
    (fn = "debianNameFromGopkg" /\ C24_Known(arg.gopkg))
    => /\ result.exit = "ok"
       /\ arg.t = "library"
            => result.out = TrimHyphens(C24_LibraryName(arg.gopkg))
       /\ arg.t = "program" => result.out = C24_ProgramName(arg.gopkg)

\* a library whose last component ends in '-'
C24_Witness ==
    /\ fn = "debianNameFromGopkg"
    /\ arg.gopkg = <<"g", "i", "t", "h", "u", "b", ".", "c", "o", "m", "/", "d", "_", "m", "/", "a", "-">>
    /\ arg.t = "library"
    /\ result.out = <<"g", "o", "l", "a", "n", "g", "-", "g", "i", "t", "h", "u", "b", "-", "d", "-", "m", "-", "a">>

C25_IsUnordered(line) == Len(line) >= 3 /\ SubSeq(line, 1, 3) = <<" ", "*", " ">>

C25_IsItem(line) == C25_IsUnordered(line) \/ MatchOrderedItem(line)

\* the hanging indent of line i: that of the nearest item line above it
\* with no blank line and no other item in between
C25_IndentOf(ls, i) ==
    LET marks == { j \in 1..(i - 1) : ls[j] = <<>> \/ C25_IsItem(ls[j]) }
        last == CHOOSE j \in marks : \A k \in marks : k <= j
    IN  IF ls[i] = <<>> \/ C25_IsItem(ls[i]) \/ marks = {} THEN <<>>
        ELSE IF C25_IsUnordered(ls[last]) THEN <<" ", " ">>
        ELSE IF MatchOrderedItem(ls[last]) THEN <<" ", " ", " ">>
        ELSE <<>>

RECURSIVE C25_Emit(_, _)
C25_Emit(ls, i) ==
    IF i > Len(ls) THEN <<>>
    ELSE <<" ">> \o C25_IndentOf(ls, i)
         \o (IF ls[i] = <<>> THEN <<".">> ELSE ls[i]) \o <<"\n">>
         \o C25_Emit(ls, i + 1)

\* what the claim describes, for a sequence of lines
C25_Expected(ls) ==
    C25_Emit([i \in 1..Len(ls) |-> TrimRightBlank(ls[i])], 1)

\* C25 as stated: every input line is emitted with trailing spaces removed
\* and one leading space added, blank lines as " .", and the lines that
\* continue a list item with a hanging indent of 2 (unordered) or 3
\* (ordered) more spaces until the next blank line.
C25_EveryLineReformatted ==
    fn = "reformatForControl"
    => result = C25_Expected(Split(arg.raw, "\n"))

\* C25, amended: the same for the lines of the text once the white space
\* at its two ends is removed.
C25_TrimmedTextReformatted ==
    fn = "reformatForControl"
    => result = C25_Expected(Split(TrimSpace(arg.raw), "\n"))

\* an ordered item and its continuation, after a line with trailing space
C25_Witness ==
    /\ fn = "reformatForControl"
    /\ arg.raw = <<"c", " ", "\n", " ", "1", "2", ".", " ", "b", "\n", " ", "d">>
    /\ result = <<" ", "c", "\n", " ", " ", "1", "2", ".", " ", "b", "\n", " ", " ", " ", " ", " ", "d", "\n">>

\* the legacy flag an argument names, with the value attached to it
C26_Parse(a) ==
    LET c == Cut(a, "=")
        name == IF HasPrefix(c.before, <<"-", "-">>) THEN SubSeq(c.before, 3, Len(c.before))
                ELSE IF HasPrefix(c.before, <<"-">>) THEN SubSeq(c.before, 2, Len(c.before))
                ELSE <<>>
    IN  [name |-> name,
         value |-> IF c.found THEN <<"=">> \o c.after ELSE <<>>]

C26_Expected(a) ==
    LET p == C26_Parse(a)
    IN  IF \E f \in flagMap : f.old = p.name
        THEN <<"-", "-">> \o ReplaceUnderscore(p.name) \o p.value
        ELSE a

\* C26: updateFlagNames rewrites every argument that is a legacy underscore
\* flag, written -name or --name, with or without an attached =value, to
\* --new-name keeping the value, and leaves all other arguments, their
\* number and their order unchanged.
C26_LegacyFlagsRewritten ==
    fn = "updateFlagNames"
    => /\ Len(result) = Len(arg.args)
       /\ \A i \in 1..Len(result) : result[i] = C26_Expected(arg.args[i])
(***************************************************************************)
(* Properties of get and its progress goroutine.                           *)
(***************************************************************************)
\* C29: once get has returned, the progress goroutine writes nothing more
\* to standard output.
C29_NoProgressAfterReturn ==
    ~(term.by = "progress" /\ term.afterReturn)

\* C30: get returns with done closed on every path, and after done is
\* closed progressSize eventually returns.
C30_ProgressEnds ==
    /\ [](GetReturned => done = "closed")
    /\ (done = "closed") ~> (ppc = "returned")

\* go get failed, done was closed and the goroutine has returned after a
\* round on a terminal
C30_Witness ==
    /\ gpc = "failed"
    /\ done = "closed"
    /\ ppc = "returned"
    /\ tty
    /\ rounds > 0

====
